---- MODULE Spec2Model ----
(***************************************************************************)
(* Model of egraphs.hpp (can-lehmann/egraphs.cpp): EGraph<NodeKind,        *)
(* NodeData> with its union-find, hashcons, use rings, down rings,         *)
(* node(), merge(MergeQueue&), EClass iteration and match iteration.       *)
(*                                                                         *)
(* Pointers are record numbers: nodes are 1..Len(data) in allocation       *)
(* order, the Down record of node k is record k (Down(node) is allocated   *)
(* together with its node), Use records are 1..Len(useNode) in allocation  *)
(* order, and 0 is nullptr.                                                *)
(*                                                                         *)
(* The hashcons is modelled by the set of nodes linked into a bucket       *)
(* chain (is_in_hashcons) and get() by the search for a node that eq()     *)
(* accepts.  The bucket a node hangs in and its place in the chain decide  *)
(* the result of get() only when two linked nodes are eq() to the same     *)
(* key, which HashconsUnique checks never to happen.                       *)
(***************************************************************************)
EXTENDS Naturals, Integers, Sequences, FiniteSets, TLC

\* ---------------------------------------------------------------- bounds
MaxNodes == 3          \* nodes the callers allocate
MaxChainNodes == 5     \* the same when the nodes are a leaf and F's with one child
MaxIterNodes == 3      \* nodes the callers of SpecIter allocate
MaxBatchNodes == 3     \* nodes the callers of SpecBatch allocate
MaxQueue == 2          \* pairs in the MergeQueue of the caller
MaxExtractNodes == 3   \* nodes the callers of SpecExtract allocate
MaxAtNodes == 3        \* nodes the callers of SpecAt allocate
MaxIndex == 2          \* the largest index passed to Node::at
MaxUseNodes == 4       \* nodes of the callers whose merges relink the uses rings
MaxAllocs == 2         \* calls of ArenaAllocator::alloc

\* The calls of node() the callers make: NodeData values (a kind and a
\* payload; SimpleNodeData has only the kind) with the child counts they are
\* used with.
Datas ==
  { [kind |-> "X", value |-> 0], [kind |-> "X", value |-> 1], [kind |-> "F", value |-> 0] }

Kinds == { d.kind : d \in Datas }

Arities(d) ==
  IF d.kind = "F" THEN {1, 2} ELSE IF d.value = 1 THEN {1} ELSE {0}

VARIABLES
  data,          \* Node::_data
  children,      \* Node::_children (slot i of the code is index i+1)
  rank,          \* Node::_rank
  up,            \* Node::_up, 0 = nullptr
  uses,          \* Node::_uses, 0 = nullptr
  down,          \* Node::_down, 0 = nullptr
  downNext,      \* Down::next of the Down record of each node
  useNode,       \* Use::node
  useIdx,        \* Use::child_index (0-based as in the code)
  useNext,       \* Use::next
  inHashcons,    \* nodes with _prev_bucket != nullptr
  roots,         \* EGraph::_roots
  queue,         \* MergeQueue::_queue of the queue merge(MergeQueue&) drains
  pc,            \* "idle", or the position inside merge(MergeQueue&)
  changed,       \* local `changed` of merge(MergeQueue&)
  walk,          \* locals use, prev, uses.last, root of the "Update users" loop
  ret,           \* the last public call and its outcome
  origChildren,  \* history: the children each node was created with
  asserted,      \* history: the congruence generated by the pairs passed to merge
  arenas,        \* ArenaAllocator::_arenas of an allocator of its own, <<>> before
                 \* its constructor has run
  blocks         \* history: the requests made to that allocator and their results

vars ==
  << data, children, rank, up, uses, down, downNext, useNode, useIdx, useNext,
     inHashcons, roots, queue, pc, changed, walk, ret, origChildren, asserted,
     arenas, blocks >>

Nodes == 1..Len(data)
UseRecs == 1..Len(useNode)

NoWalk == [use |-> 0, prev |-> 0, last |-> 0, root |-> 0]

\* ------------------------------------------------------------ union-find
\* Node::root, first loop: walk up to the node without parent.  fuel bounds
\* the walk; 0 is returned when it does not end (a cycle of up pointers).
RECURSIVE RootWalk(_, _, _)
RootWalk(u, x, fuel) ==
  IF u[x] = 0 THEN x
  ELSE IF fuel = 0 THEN 0
  ELSE RootWalk(u, u[x], fuel - 1)

Root(u, x) == RootWalk(u, x, Len(u))

\* The nodes the first loop of Node::root visits from x on, in order
RECURSIVE UpPath(_, _, _)
UpPath(u, x, fuel) ==
  IF u[x] = 0 \/ fuel = 0 THEN << x >>
  ELSE << x >> \o UpPath(u, u[x], fuel - 1)

\* Node::root, second loop: path compression from cur on, r is the root found.
RECURSIVE CompressWalk(_, _, _, _)
CompressWalk(u, cur, r, fuel) ==
  IF u[cur] = 0 \/ fuel = 0 THEN u
  ELSE CompressWalk([u EXCEPT ![cur] = r], u[cur], r, fuel - 1)

\* Fault: a root() that compresses no path.
CompressNothing(u, x) == u

\* _up of every node after x->root()
Compress(u, x) == CompressWalk(u, x, Root(u, x), Len(u))

\* -------------------------------------------------------------- hashcons
\* Fault: eq() that does not compare the data.
EqNoData(dat, ch, m, d, c) ==
  IF Len(ch[m]) # Len(c) THEN FALSE
  ELSE \A i \in 1..Len(c) : ch[m][i] = c[i]

\* Node::eq
Eq(dat, ch, m, d, c) ==
  IF Len(ch[m]) # Len(c) \/ dat[m] # d THEN FALSE
  ELSE \A i \in 1..Len(c) : ch[m][i] = c[i]

\* Hashcons::get(data, children, child_count); 0 = nullptr
Get(hc, dat, ch, d, c) ==
  LET found == { m \in hc : Eq(dat, ch, m, d, c) }
  IN IF found = {} THEN 0 ELSE CHOOSE m \in found : TRUE

\* Fault: erase() that leaves the node linked.
HashconsEraseNothing(hc, m) == hc

\* Hashcons::erase
HashconsErase(hc, m) == hc \ {m}

\* Fault: insert() that does not link the node.
HashconsInsertNothing(hc, m) == hc

\* Hashcons::insert
HashconsInsert(hc, m) == hc \cup {m}

\* ----------------------------------------------------------------- arena
\* Arena::SIZE
ArenaSize == 4194304

\* alignof(std::max_align_t): new uint8_t[SIZE] returns storage aligned for
\* every object that fits into it.
NewAlign == 16

\* The addresses new uint8_t[SIZE] can return: slabs do not overlap, and
\* address 0 is nullptr.
Bases ==
  { k * 2 * ArenaSize + j * NewAlign : k \in 1..(MaxAllocs + 1), j \in 0..1 }

\* Arena::Arena
NewArena(base) == [ data |-> base, top |-> base ]

\* Arena::alloc: the arena afterwards and the pointer returned, 0 = nullptr
ArenaAlloc(ar, size, alignment) ==
  LET offset == (ar.top + alignment) - (ar.top % alignment) IN
  IF offset + size > ar.data + ArenaSize THEN [ arena |-> ar, ptr |-> 0 ]
  ELSE [ arena |-> [ar EXCEPT !.top = offset + size], ptr |-> offset ]

\* ArenaAllocator::alloc(size, alignment); base is where new[] puts the slab
\* of an arena the call appends.  holds is FALSE when assert(ptr != nullptr)
\* fails; a build without assertions returns nullptr then.
Alloc(A, size, alignment, base) ==
  LET r == ArenaAlloc(A[Len(A)], size, alignment)
      s == ArenaAlloc(NewArena(base), size, alignment)
  IN IF r.ptr # 0
       THEN [ arenas |-> [A EXCEPT ![Len(A)] = r.arena], ptr |-> r.ptr, holds |-> TRUE ]
       ELSE [ arenas |-> Append(A, s.arena), ptr |-> s.ptr, holds |-> s.ptr # 0 ]

\* ------------------------------------------------------------- use rings
\* Fault: a splice that sets _uses->next and leaves uses->next as it is.
InsertUsesHalf(us, nx, x, u) ==
  IF us[x] = 0
    THEN [uses |-> [us EXCEPT ![x] = u], next |-> nx]
    ELSE [uses |-> us, next |-> [nx EXCEPT ![us[x]] = nx[u]]]

\* Node::insert_uses on node x with the ring of record u; us is _uses of
\* every node and nx is Use::next of every record.
InsertUses(us, nx, x, u) ==
  IF us[x] = 0
    THEN [uses |-> [us EXCEPT ![x] = u], next |-> nx]
    ELSE LET temp == nx[us[x]]
             nx1  == [nx EXCEPT ![us[x]] = nx[u]]
         IN [uses |-> us, next |-> [nx1 EXCEPT ![u] = temp]]

\* The loop of EGraph::node that allocates one Use record per child slot and
\* splices it into the ring of the child; U holds uses and the Use records.
RECURSIVE AddUses(_, _, _, _)
AddUses(U, x, c, it) ==
  IF it >= Len(c) THEN U
  ELSE LET u  == Len(U.useNode) + 1
           r  == InsertUses(U.uses, Append(U.useNext, u), c[it + 1], u)
       IN AddUses([uses    |-> r.uses,
                   useNode |-> Append(U.useNode, x),
                   useIdx  |-> Append(U.useIdx, it),
                   useNext |-> r.next], x, c, it + 1)

\* ------------------------------------------------------------ the e-graph
\* The fields of the EGraph and of the running merge(MergeQueue&) as one
\* record, so that the statements of merge can be applied one after another.
Graph ==
  [ data |-> data, children |-> children, rank |-> rank, up |-> up, uses |-> uses,
    down |-> down, downNext |-> downNext, useNode |-> useNode, useIdx |-> useIdx,
    useNext |-> useNext, inHashcons |-> inHashcons, roots |-> roots,
    queue |-> queue, pc |-> pc, changed |-> changed, walk |-> walk ]

\* Fault: a union that does not join the down rings.
MergeRootsNoSplice(S, child, other) ==
  LET rank1 == IF S.rank[child] = S.rank[other]
                 THEN [S.rank EXCEPT ![other] = S.rank[other] + 1] ELSE S.rank
      temp  == S.downNext[S.down[other]]
      dn1   == [S.downNext EXCEPT ![S.down[other]] = S.downNext[S.down[child]]]
      dn2   == [dn1 EXCEPT ![S.down[child]] = temp]
      ins   == InsertUses(S.uses, S.useNext, other, S.uses[child])
      S1    == [S EXCEPT !.up = [S.up EXCEPT ![child] = other],
                         !.rank = rank1,
                         !.downNext = S.downNext,
                         !.down = [S.down EXCEPT ![child] = 0]]
  IN IF S.uses[child] # 0
       THEN [ S     |-> [S1 EXCEPT !.uses = [ins.uses EXCEPT ![child] = 0],
                                   !.useNext = ins.next],
              first |-> S.useNext[S.uses[child]],
              last  |-> S.uses[child] ]
       ELSE [ S |-> S1, first |-> 0, last |-> 0 ]

\* Fault: a union that leaves the rank of the winner as it is.
MergeRootsNoRank(S, child, other) ==
  LET rank1 == IF S.rank[child] = S.rank[other]
                 THEN [S.rank EXCEPT ![other] = S.rank[other] + 1] ELSE S.rank
      temp  == S.downNext[S.down[other]]
      dn1   == [S.downNext EXCEPT ![S.down[other]] = S.downNext[S.down[child]]]
      dn2   == [dn1 EXCEPT ![S.down[child]] = temp]
      ins   == InsertUses(S.uses, S.useNext, other, S.uses[child])
      S1    == [S EXCEPT !.up = [S.up EXCEPT ![child] = other],
                         !.rank = S.rank,
                         !.downNext = dn2,
                         !.down = [S.down EXCEPT ![child] = 0]]
  IN IF S.uses[child] # 0
       THEN [ S     |-> [S1 EXCEPT !.uses = [ins.uses EXCEPT ![child] = 0],
                                   !.useNext = ins.next],
              first |-> S.useNext[S.uses[child]],
              last  |-> S.uses[child] ]
       ELSE [ S |-> S1, first |-> 0, last |-> 0 ]

\* Fault: a union that returns only the first use record of the loser.
MergeRootsOneUser(S, child, other) ==
  LET rank1 == IF S.rank[child] = S.rank[other]
                 THEN [S.rank EXCEPT ![other] = S.rank[other] + 1] ELSE S.rank
      temp  == S.downNext[S.down[other]]
      dn1   == [S.downNext EXCEPT ![S.down[other]] = S.downNext[S.down[child]]]
      dn2   == [dn1 EXCEPT ![S.down[child]] = temp]
      ins   == InsertUses(S.uses, S.useNext, other, S.uses[child])
      S1    == [S EXCEPT !.up = [S.up EXCEPT ![child] = other],
                         !.rank = rank1,
                         !.downNext = dn2,
                         !.down = [S.down EXCEPT ![child] = 0]]
  IN IF S.uses[child] # 0
       THEN [ S     |-> [S1 EXCEPT !.uses = [ins.uses EXCEPT ![child] = 0],
                                   !.useNext = ins.next],
              first |-> S.useNext[S.uses[child]],
              last  |-> S.useNext[S.uses[child]] ]
       ELSE [ S |-> S1, first |-> 0, last |-> 0 ]

\* Node::merge_roots: child is `this`.  range is the returned CycleRange
\* (first = 0 when it is empty).
MergeRoots(S, child, other) ==
  LET rank1 == IF S.rank[child] = S.rank[other]
                 THEN [S.rank EXCEPT ![other] = S.rank[other] + 1] ELSE S.rank
      temp  == S.downNext[S.down[other]]
      dn1   == [S.downNext EXCEPT ![S.down[other]] = S.downNext[S.down[child]]]
      dn2   == [dn1 EXCEPT ![S.down[child]] = temp]
      ins   == InsertUses(S.uses, S.useNext, other, S.uses[child])
      S1    == [S EXCEPT !.up = [S.up EXCEPT ![child] = other],
                         !.rank = rank1,
                         !.downNext = dn2,
                         !.down = [S.down EXCEPT ![child] = 0]]
  IN IF S.uses[child] # 0
       THEN [ S     |-> [S1 EXCEPT !.uses = [ins.uses EXCEPT ![child] = 0],
                                   !.useNext = ins.next],
              first |-> S.useNext[S.uses[child]],
              last  |-> S.uses[child] ]
       ELSE [ S |-> S1, first |-> 0, last |-> 0 ]

\* Fault: a tie of the ranks goes to the first operand.
PickRootFirst(rk, a, b) ==
  IF rk[b] <= rk[a] THEN <<a, b>> ELSE <<b, a>>

\* EGraph::merge(MergeQueue&), the choice of the new root among the
\* canonical operands a and b: <<root, child>>.
PickRoot(rk, a, b) ==
  IF rk[b] < rk[a] THEN <<a, b>> ELSE <<b, a>>

\* Fault: the loser of a union stays in _roots.
RootsEraseNothing(rs, child) == rs

\* _roots.erase(child)
RootsErase(rs, child) == rs \ {child}

\* Fault: merge_roots that drops the pairs with a > b.
QueueMergeRootsOrdered(q, a, b) ==
  IF a < b THEN Append(q, <<a, b>>) ELSE q

\* MergeQueue::merge_roots
QueueMergeRoots(q, a, b) ==
  IF a # b THEN Append(q, <<a, b>>) ELSE q

\* MergeQueue::merge: both operands are canonicalised by Node::root, which
\* compresses their paths.
QueueMerge(S, a, b) ==
  LET u1 == Compress(S.up, a)
      u2 == Compress(u1, b)
  IN [S EXCEPT !.up = u2,
               !.queue = QueueMergeRoots(S.queue, Root(S.up, a), Root(u1, b))]

\* Fault: a drain that leaves a pair of equal roots at the head of the queue.
DrainStepNoPop(S) ==
  LET pair == Head(S.queue)
      u1   == Compress(S.up, pair[1])
      a    == Root(S.up, pair[1])
      u2   == Compress(u1, pair[2])
      b    == Root(u1, pair[2])
      S1   == [S EXCEPT !.queue = Tail(S.queue), !.up = u2]
      rc   == PickRoot(S.rank, a, b)
      m    == MergeRoots(S1, rc[2], rc[1])
      S2   == [m.S EXCEPT !.changed = TRUE, !.roots = RootsErase(S.roots, rc[2])]
  IN IF a = b THEN [S EXCEPT !.up = u2]
     ELSE IF m.first = 0 THEN S2
     ELSE [S2 EXCEPT !.pc = "walk",
                     !.walk = [use |-> m.first, prev |-> 0, last |-> m.last,
                               root |-> rc[1]]]

\* Fault: a drain that never sets `changed`.
DrainStepNoChanged(S) ==
  LET pair == Head(S.queue)
      u1   == Compress(S.up, pair[1])
      a    == Root(S.up, pair[1])
      u2   == Compress(u1, pair[2])
      b    == Root(u1, pair[2])
      S1   == [S EXCEPT !.queue = Tail(S.queue), !.up = u2]
      rc   == PickRoot(S.rank, a, b)
      m    == MergeRoots(S1, rc[2], rc[1])
      S2   == [m.S EXCEPT !.roots = RootsErase(S.roots, rc[2])]
  IN IF a = b THEN S1
     ELSE IF m.first = 0 THEN S2
     ELSE [S2 EXCEPT !.pc = "walk",
                     !.walk = [use |-> m.first, prev |-> 0, last |-> m.last,
                               root |-> rc[1]]]

\* Fault: a union that takes its loser out of the hashcons.
DrainStepErasesLoser(S) ==
  LET pair == Head(S.queue)
      u1   == Compress(S.up, pair[1])
      a    == Root(S.up, pair[1])
      u2   == Compress(u1, pair[2])
      b    == Root(u1, pair[2])
      S1   == [S EXCEPT !.queue = Tail(S.queue), !.up = u2]
      rc   == PickRoot(S.rank, a, b)
      m    == MergeRoots(S1, rc[2], rc[1])
      S2   == [m.S EXCEPT !.changed = TRUE, !.roots = RootsErase(S.roots, rc[2]),
                          !.inHashcons = HashconsErase(S.inHashcons, rc[2])]
  IN IF a = b THEN S1
     ELSE IF m.first = 0 THEN S2
     ELSE [S2 EXCEPT !.pc = "walk",
                     !.walk = [use |-> m.first, prev |-> 0, last |-> m.last,
                               root |-> rc[1]]]

\* merge(MergeQueue&): queue.pop(), canonicalisation, and for distinct roots
\* the union, up to the head of the "Update users" loop.
DrainStep(S) ==
  LET pair == Head(S.queue)
      u1   == Compress(S.up, pair[1])
      a    == Root(S.up, pair[1])
      u2   == Compress(u1, pair[2])
      b    == Root(u1, pair[2])
      S1   == [S EXCEPT !.queue = Tail(S.queue), !.up = u2]
      rc   == PickRoot(S.rank, a, b)
      m    == MergeRoots(S1, rc[2], rc[1])
      S2   == [m.S EXCEPT !.changed = TRUE, !.roots = RootsErase(S.roots, rc[2])]
  IN IF a = b THEN S1
     ELSE IF m.first = 0 THEN S2
     ELSE [S2 EXCEPT !.pc = "walk",
                     !.walk = [use |-> m.first, prev |-> 0, last |-> m.last,
                               root |-> rc[1]]]

\* Fault: an "Update users" loop that drops a user whose key is taken
\* without merging it with the node that holds the key.
WalkStepNoCongruence(S) ==
  LET use   == S.walk.use
      p     == S.useNode[use]
      live  == p \in S.inHashcons
      hc1   == HashconsErase(S.inHashcons, p)
      ch1   == [S.children EXCEPT ![p][S.useIdx[use] + 1] = S.walk.root]
      other == Get(hc1, S.data, ch1, S.data[p], ch1[p])
      S1    == [S EXCEPT !.children = ch1, !.inHashcons = hc1]
      S2    == IF other = 0
                 THEN [S1 EXCEPT !.inHashcons = HashconsInsert(hc1, p)]
                 ELSE S1
      S3    == IF S.walk.prev # 0
                 THEN [S2 EXCEPT !.useNext = [S.useNext EXCEPT ![S.walk.prev] = use]]
                 ELSE S2
      S4    == IF live THEN [S3 EXCEPT !.walk.prev = use] ELSE S
  IN IF use = S.walk.last
       THEN [S4 EXCEPT !.pc = "drain", !.walk = NoWalk]
       ELSE [S4 EXCEPT !.walk.use = S4.useNext[use]]

\* Fault: an "Update users" loop that does not put a user back into the
\* hashcons under its rewritten key.
WalkStepNoReinsert(S) ==
  LET use   == S.walk.use
      p     == S.useNode[use]
      live  == p \in S.inHashcons
      hc1   == HashconsErase(S.inHashcons, p)
      ch1   == [S.children EXCEPT ![p][S.useIdx[use] + 1] = S.walk.root]
      other == Get(hc1, S.data, ch1, S.data[p], ch1[p])
      S1    == [S EXCEPT !.children = ch1, !.inHashcons = hc1]
      S2    == IF other = 0
                 THEN S1
                 ELSE QueueMerge(S1, p, other)
      S3    == IF S.walk.prev # 0
                 THEN [S2 EXCEPT !.useNext = [S.useNext EXCEPT ![S.walk.prev] = use]]
                 ELSE S2
      S4    == IF live THEN [S3 EXCEPT !.walk.prev = use] ELSE S
  IN IF use = S.walk.last
       THEN [S4 EXCEPT !.pc = "drain", !.walk = NoWalk]
       ELSE [S4 EXCEPT !.walk.use = S4.useNext[use]]

\* Fault: an "Update users" loop that leaves the child of the user as it is.
WalkStepNoRewrite(S) ==
  LET use   == S.walk.use
      p     == S.useNode[use]
      live  == p \in S.inHashcons
      hc1   == HashconsErase(S.inHashcons, p)
      ch1   == S.children
      other == Get(hc1, S.data, ch1, S.data[p], ch1[p])
      S1    == [S EXCEPT !.children = ch1, !.inHashcons = hc1]
      S2    == IF other = 0
                 THEN [S1 EXCEPT !.inHashcons = HashconsInsert(hc1, p)]
                 ELSE QueueMerge(S1, p, other)
      S3    == IF S.walk.prev # 0
                 THEN [S2 EXCEPT !.useNext = [S.useNext EXCEPT ![S.walk.prev] = use]]
                 ELSE S2
      S4    == IF live THEN [S3 EXCEPT !.walk.prev = use] ELSE S
  IN IF use = S.walk.last
       THEN [S4 EXCEPT !.pc = "drain", !.walk = NoWalk]
       ELSE [S4 EXCEPT !.walk.use = S4.useNext[use]]

\* Fault: an "Update users" loop that does not ask whether the parent is in
\* the hashcons.
WalkStepNoLiveCheck(S) ==
  LET use   == S.walk.use
      p     == S.useNode[use]
      live  == TRUE
      hc1   == HashconsErase(S.inHashcons, p)
      ch1   == [S.children EXCEPT ![p][S.useIdx[use] + 1] = S.walk.root]
      other == Get(hc1, S.data, ch1, S.data[p], ch1[p])
      S1    == [S EXCEPT !.children = ch1, !.inHashcons = hc1]
      S2    == IF other = 0
                 THEN [S1 EXCEPT !.inHashcons = HashconsInsert(hc1, p)]
                 ELSE QueueMerge(S1, p, other)
      S3    == IF S.walk.prev # 0
                 THEN [S2 EXCEPT !.useNext = [S.useNext EXCEPT ![S.walk.prev] = use]]
                 ELSE S2
      S4    == IF live THEN [S3 EXCEPT !.walk.prev = use] ELSE S
  IN IF use = S.walk.last
       THEN [S4 EXCEPT !.pc = "drain", !.walk = NoWalk]
       ELSE [S4 EXCEPT !.walk.use = S4.useNext[use]]

\* Fault: an "Update users" loop that links the last record kept to the one
\* after the record it is at.
WalkStepUnlinksUse(S) ==
  LET use   == S.walk.use
      p     == S.useNode[use]
      live  == p \in S.inHashcons
      hc1   == HashconsErase(S.inHashcons, p)
      ch1   == [S.children EXCEPT ![p][S.useIdx[use] + 1] = S.walk.root]
      other == Get(hc1, S.data, ch1, S.data[p], ch1[p])
      S1    == [S EXCEPT !.children = ch1, !.inHashcons = hc1]
      S2    == IF other = 0
                 THEN [S1 EXCEPT !.inHashcons = HashconsInsert(hc1, p)]
                 ELSE QueueMerge(S1, p, other)
      S3    == IF S.walk.prev # 0
                 THEN [S2 EXCEPT !.useNext = [S.useNext EXCEPT ![S.walk.prev] = S.useNext[use]]]
                 ELSE S2
      S4    == IF live THEN [S3 EXCEPT !.walk.prev = use] ELSE S
  IN IF use = S.walk.last
       THEN [S4 EXCEPT !.pc = "drain", !.walk = NoWalk]
       ELSE [S4 EXCEPT !.walk.use = S4.useNext[use]]

\* Fault: an "Update users" loop that also erases the node it finds under
\* the rewritten key.
WalkStepErasesOther(S) ==
  LET use   == S.walk.use
      p     == S.useNode[use]
      live  == p \in S.inHashcons
      hc1   == HashconsErase(S.inHashcons, p)
      ch1   == [S.children EXCEPT ![p][S.useIdx[use] + 1] = S.walk.root]
      other == Get(hc1, S.data, ch1, S.data[p], ch1[p])
      S1    == [S EXCEPT !.children = ch1, !.inHashcons = hc1]
      S2    == IF other = 0
                 THEN [S1 EXCEPT !.inHashcons = HashconsInsert(hc1, p)]
                 ELSE QueueMerge([S1 EXCEPT !.inHashcons = hc1 \ {other}], p, other)
      S3    == IF S.walk.prev # 0
                 THEN [S2 EXCEPT !.useNext = [S.useNext EXCEPT ![S.walk.prev] = use]]
                 ELSE S2
      S4    == IF live THEN [S3 EXCEPT !.walk.prev = use] ELSE S
  IN IF use = S.walk.last
       THEN [S4 EXCEPT !.pc = "drain", !.walk = NoWalk]
       ELSE [S4 EXCEPT !.walk.use = S4.useNext[use]]

\* merge(MergeQueue&): the body of the "Update users" loop for the use
\* record S.walk.use, and the step to the next record.
WalkStep(S) ==
  LET use   == S.walk.use
      p     == S.useNode[use]
      live  == p \in S.inHashcons
      hc1   == HashconsErase(S.inHashcons, p)
      ch1   == [S.children EXCEPT ![p][S.useIdx[use] + 1] = S.walk.root]
      other == Get(hc1, S.data, ch1, S.data[p], ch1[p])
      S1    == [S EXCEPT !.children = ch1, !.inHashcons = hc1]
      S2    == IF other = 0
                 THEN [S1 EXCEPT !.inHashcons = HashconsInsert(hc1, p)]
                 ELSE QueueMerge(S1, p, other)
      S3    == IF S.walk.prev # 0
                 THEN [S2 EXCEPT !.useNext = [S.useNext EXCEPT ![S.walk.prev] = use]]
                 ELSE S2
      S4    == IF live THEN [S3 EXCEPT !.walk.prev = use] ELSE S
  IN IF use = S.walk.last
       THEN [S4 EXCEPT !.pc = "drain", !.walk = NoWalk]
       ELSE [S4 EXCEPT !.walk.use = S4.useNext[use]]

\* Fault: a drain that stops after the first pair that led to a union.
MergeStepStopsEarly(S) ==
  IF S.pc = "walk" THEN WalkStep(S)
  ELSE IF S.queue # <<>> /\ ~ S.changed THEN DrainStep(S)
  ELSE [S EXCEPT !.pc = "return"]

\* One step of merge(MergeQueue&); the loop is left with pc = "return".
MergeStep(S) ==
  IF S.pc = "walk" THEN WalkStep(S)
  ELSE IF S.queue # <<>> THEN DrainStep(S)
  ELSE [S EXCEPT !.pc = "return"]

\* merge(MergeQueue&) run until it returns.  fuel bounds the number of steps;
\* a result with pc # "return" stands for a call that does not return.
RECURSIVE Drain(_, _)
Drain(S, fuel) ==
  IF S.pc = "return" \/ fuel = 0 THEN S
  ELSE Drain(MergeStep(S), fuel - 1)

\* More steps than a drain can take: every union is followed by a walk over
\* at most all use records, and every step that is no union empties the queue.
DrainFuel(S) == (Len(S.data) + 2) * (Len(S.useNode) + 2) * 2

\* merge(Node* a, Node* b)
Merge(S, a, b) ==
  LET S0 == QueueMerge([S EXCEPT !.queue = <<>>], a, b)
  IN Drain([S0 EXCEPT !.pc = "drain", !.changed = FALSE], DrainFuel(S))

\* MergeQueue queue; queue.merge(a, b) for every pair of ps in turn
RECURSIVE QueueMergeAll(_, _)
QueueMergeAll(S, ps) ==
  IF ps = <<>> THEN S
  ELSE QueueMergeAll(QueueMerge(S, Head(ps)[1], Head(ps)[2]), Tail(ps))

Requeued(S, ps) == QueueMergeAll([S EXCEPT !.queue = <<>>], ps)

\* merge(queue) on the queue of S, from call to return
MergeQueued(S) ==
  Drain([S EXCEPT !.pc = "drain", !.changed = FALSE], DrainFuel(S) + Len(S.queue))

\* Fault: node() that returns the node found instead of its root.
NodeNoRoot(S, d, c) ==
  LET m == Get(S.inHashcons, S.data, S.children, d, c)
      x == Len(S.data) + 1
      U == AddUses([uses |-> Append(S.uses, 0), useNode |-> S.useNode,
                    useIdx |-> S.useIdx, useNext |-> S.useNext], x, c, 0)
  IN IF m # 0
       THEN [ S |-> S, ret |-> m, found |-> m ]
       ELSE [ S |-> [S EXCEPT !.data = Append(S.data, d),
                              !.children = Append(S.children, c),
                              !.rank = Append(S.rank, 0),
                              !.up = Append(S.up, 0),
                              !.down = Append(S.down, x),
                              !.downNext = Append(S.downNext, x),
                              !.uses = U.uses,
                              !.useNode = U.useNode,
                              !.useIdx = U.useIdx,
                              !.useNext = U.useNext,
                              !.inHashcons = HashconsInsert(S.inHashcons, x),
                              !.roots = S.roots \cup {x}],
              ret |-> x, found |-> 0 ]

\* EGraph::node(data, children, child_count): the e-graph after the call,
\* the returned node, and the node that Hashcons::get found (0 = nullptr).
Node(S, d, c) ==
  LET m == Get(S.inHashcons, S.data, S.children, d, c)
      x == Len(S.data) + 1
      U == AddUses([uses |-> Append(S.uses, 0), useNode |-> S.useNode,
                    useIdx |-> S.useIdx, useNext |-> S.useNext], x, c, 0)
  IN IF m # 0
       THEN [ S |-> [S EXCEPT !.up = Compress(S.up, m)], ret |-> Root(S.up, m), found |-> m ]
       ELSE [ S |-> [S EXCEPT !.data = Append(S.data, d),
                              !.children = Append(S.children, c),
                              !.rank = Append(S.rank, 0),
                              !.up = Append(S.up, 0),
                              !.down = Append(S.down, x),
                              !.downNext = Append(S.downNext, x),
                              !.uses = U.uses,
                              !.useNode = U.useNode,
                              !.useIdx = U.useIdx,
                              !.useNext = U.useNext,
                              !.inHashcons = HashconsInsert(S.inHashcons, x),
                              !.roots = S.roots \cup {x}],
              ret |-> x, found |-> 0 ]

\* ------------------------------------------------------ class iteration
\* Down::node: the Down record of a node is allocated with it and has its number.
DownNode(dw) == dw

\* EClass::Iterator::next: _current after the call (0 = nullptr)
IterNext(dn, initial, current) ==
  IF dn[current] = initial THEN 0 ELSE dn[current]

\* EClass::Iterator::skip_to_next_in_hashcons: _current after the call;
\* -1 when the loop does not end within fuel steps.
RECURSIVE SkipToNextInHashcons(_, _, _, _, _)
SkipToNextInHashcons(dn, hc, initial, current, fuel) ==
  IF current = 0 \/ DownNode(current) \in hc THEN current
  ELSE IF fuel = 0 THEN -1
  ELSE SkipToNextInHashcons(dn, hc, initial, IterNext(dn, initial, current), fuel - 1)

\* Fault: a constructor that does not skip to the first node in the hashcons.
IteratorNoSkip(dn, hc, initial, current) ==
  [ initial |-> initial, current |-> current ]

\* An iterator is [initial, current]; the constructor of EClass::Iterator.
Iterator(dn, hc, initial, current) ==
  [ initial |-> initial,
    current |-> SkipToNextInHashcons(dn, hc, initial, current, Len(dn)) ]

\* Fault: operator++ that links the record it leaves to the one after the
\* record it moves to.
IncrementUnlinksLive(dn, hc, it) ==
  IF it.current = 0 THEN [ it |-> it, downNext |-> dn ]
  ELSE LET prev == it.current
           cur  == SkipToNextInHashcons(dn, hc, it.initial,
                                        IterNext(dn, it.initial, prev), Len(dn))
       IN [ it |-> [it EXCEPT !.current = cur],
            downNext |-> IF cur = -1 THEN dn
                         ELSE IF cur = 0 THEN [dn EXCEPT ![prev] = it.initial]
                         ELSE [dn EXCEPT ![prev] = dn[cur]] ]

\* Fault: operator++ that leaves the ring as it is.
IncrementNoRelink(dn, hc, it) ==
  IF it.current = 0 THEN [ it |-> it, downNext |-> dn ]
  ELSE LET prev == it.current
           cur  == SkipToNextInHashcons(dn, hc, it.initial,
                                        IterNext(dn, it.initial, prev), Len(dn))
       IN [ it |-> [it EXCEPT !.current = cur], downNext |-> dn ]

\* EClass::Iterator::operator++: the iterator and Down::next of every record
\* after the call.
Increment(dn, hc, it) ==
  IF it.current = 0 THEN [ it |-> it, downNext |-> dn ]
  ELSE LET prev == it.current
           cur  == SkipToNextInHashcons(dn, hc, it.initial,
                                        IterNext(dn, it.initial, prev), Len(dn))
       IN [ it |-> [it EXCEPT !.current = cur],
            downNext |-> IF cur = -1 THEN dn
                         ELSE IF cur = 0 THEN [dn EXCEPT ![prev] = it.initial]
                         ELSE [dn EXCEPT ![prev] = cur] ]

\* EClass::begin of the class of root r
Begin(dn, hc, dwn, r) == Iterator(dn, hc, dwn[r], dwn[r])

\* for (Node* node : e_class) from iterator it on: the nodes yielded, and
\* Down::next of every record afterwards.  ok is FALSE when the loop does
\* not reach end() within fuel steps.
RECURSIVE ClassRun(_, _, _, _, _)
ClassRun(dn, hc, it, yield, fuel) ==
  IF it.current = 0 THEN [ yield |-> yield, downNext |-> dn, ok |-> TRUE ]
  ELSE IF it.current = -1 \/ fuel = 0 THEN [ yield |-> yield, downNext |-> dn, ok |-> FALSE ]
  ELSE LET inc == Increment(dn, hc, it)
       IN ClassRun(inc.downNext, hc, inc.it, Append(yield, DownNode(it.current)), fuel - 1)

\* NodeDataMatcher::matches and NodeKindMatcher::matches; a matcher is
\* [by |-> "data", data |-> d] or [by |-> "kind", kind |-> k].
Matches(matcher, dat, m) ==
  IF matcher.by = "data" THEN matcher.data = dat[m] ELSE matcher.kind = dat[m].kind

\* MatchIterator::skip_to_next_match
RECURSIVE SkipToNextMatch(_, _, _, _, _, _)
SkipToNextMatch(dn, hc, dat, matcher, it, fuel) ==
  IF it.current = 0 \/ it.current = -1 THEN [ it |-> it, downNext |-> dn ]
  ELSE IF Matches(matcher, dat, DownNode(it.current)) THEN [ it |-> it, downNext |-> dn ]
  ELSE IF fuel = 0 THEN [ it |-> [it EXCEPT !.current = -1], downNext |-> dn ]
  ELSE LET inc == Increment(dn, hc, it)
       IN SkipToNextMatch(inc.downNext, hc, dat, matcher, inc.it, fuel - 1)

\* Fault: a constructor that does not skip to the first match.
MatchBeginNoSkip(dn, hc, dat, dwn, matcher, r) ==
  [ it |-> Begin(dn, hc, dwn, r), downNext |-> dn ]

\* MatchRange::begin of the class of root r: the constructor of MatchIterator
MatchBegin(dn, hc, dat, dwn, matcher, r) ==
  SkipToNextMatch(dn, hc, dat, matcher, Begin(dn, hc, dwn, r), Len(dn))

\* MatchIterator::operator++
MatchIncrement(dn, hc, dat, matcher, it) ==
  IF it.current = 0 THEN [ it |-> it, downNext |-> dn ]
  ELSE LET inc == Increment(dn, hc, it)
       IN SkipToNextMatch(inc.downNext, hc, dat, matcher, inc.it, Len(dn))

\* The loop over a MatchRange from iterator it to end()
RECURSIVE MatchRun(_, _, _, _, _, _, _)
MatchRun(dn, hc, dat, matcher, it, yield, fuel) ==
  IF it.current = 0 THEN [ yield |-> yield, downNext |-> dn, ok |-> TRUE ]
  ELSE IF it.current = -1 \/ fuel = 0 THEN [ yield |-> yield, downNext |-> dn, ok |-> FALSE ]
  ELSE LET inc == MatchIncrement(dn, hc, dat, matcher, it)
       IN MatchRun(inc.downNext, hc, dat, matcher, inc.it,
                   Append(yield, DownNode(it.current)), fuel - 1)

\* for (Node* node : n->e_class()): the e-graph afterwards (Node::e_class
\* calls root(), the iterator relinks the ring) and the nodes yielded.
IterateClass(S, n) ==
  LET u == Compress(S.up, n)
      r == Root(S.up, n)
      run == ClassRun(S.downNext, S.inHashcons,
                      Begin(S.downNext, S.inHashcons, S.down, r), <<>>, Len(S.data))
  IN [ S |-> [S EXCEPT !.up = u, !.downNext = run.downNext],
       yield |-> run.yield, ok |-> run.ok ]

\* for (Node* node : n->e_class().match(matcher))
IterateMatch(S, n, matcher) ==
  LET u == Compress(S.up, n)
      r == Root(S.up, n)
      b == MatchBegin(S.downNext, S.inHashcons, S.data, S.down, matcher, r)
      run == MatchRun(b.downNext, S.inHashcons, S.data, matcher, b.it, <<>>, Len(S.data))
  IN [ S |-> [S EXCEPT !.up = u, !.downNext = run.downNext],
       yield |-> run.yield, ok |-> run.ok ]

\* std::vector::insert(end, n->e_class().match(matcher).begin(),
\*                          n->e_class().match(matcher).end()):
\* begin() and end() come from two MatchRanges, and the range of forward
\* iterators is walked twice, to count it and to copy it.
CollectMatch(S, n, matcher) ==
  LET u == Compress(S.up, n)
      r == Root(S.up, n)
      b == MatchBegin(S.downNext, S.inHashcons, S.data, S.down, matcher, r)
      count == MatchRun(b.downNext, S.inHashcons, S.data, matcher, b.it, <<>>, Len(S.data))
      copy  == MatchRun(count.downNext, S.inHashcons, S.data, matcher, b.it, <<>>,
                        Len(S.data))
  IN [ S |-> [S EXCEPT !.up = u, !.downNext = copy.downNext],
       yield |-> copy.yield, count |-> Len(count.yield), ok |-> count.ok /\ copy.ok ]

\* -------------------------------------------- history: congruence closure
Min(a, b) == IF a < b THEN a ELSE b

\* rep maps every node to the least node of its class.
RECURSIVE UniteUpTo(_, _, _, _)
UniteUpTo(rep, a, b, k) ==
  IF k = 0 THEN <<>>
  ELSE Append(UniteUpTo(rep, a, b, k - 1),
              IF rep[k] = rep[a] \/ rep[k] = rep[b] THEN Min(rep[a], rep[b]) ELSE rep[k])

Unite(rep, a, b) == UniteUpTo(rep, a, b, Len(rep))

Congruent(rep, dat, och, x, y) ==
  /\ dat[x] = dat[y]
  /\ Len(och[x]) = Len(och[y])
  /\ \A i \in 1..Len(och[x]) : rep[och[x][i]] = rep[och[y][i]]

\* The least congruence that contains rep.
RECURSIVE Close(_, _, _)
Close(rep, dat, och) ==
  LET open == { p \in (DOMAIN rep) \X (DOMAIN rep) :
                  rep[p[1]] < rep[p[2]] /\ Congruent(rep, dat, och, p[1], p[2]) }
  IN IF open = {} THEN rep
     ELSE LET p == CHOOSE p \in open : TRUE
          IN Close(Unite(rep, p[1], p[2]), dat, och)

\* ---------------------------------------------------------- child access
\* Fault: a bounds check that lets the index _child_count pass; val 0 stands
\* for what lies behind the last child.
AtOffByOne(S, m, index) ==
  IF index > Len(S.children[m]) THEN [ S |-> S, throws |-> "Error", val |-> 0 ]
  ELSE [ S |-> S, throws |-> "none",
         val |-> IF index < Len(S.children[m]) THEN S.children[m][index + 1] ELSE 0 ]

\* Node::at and Node::operator[] on node m: the e-graph afterwards, the
\* exception thrown and the node returned (0 when it throws).
At(S, m, index) ==
  IF index >= Len(S.children[m]) THEN [ S |-> S, throws |-> "Error", val |-> 0 ]
  ELSE [ S |-> S, throws |-> "none", val |-> S.children[m][index + 1] ]

\* --------------------------------------------------------------- extract
\* Cost::inf, the largest value of a Cost.  The integers of the model are 32
\* bits wide, so the largest of them stands for the ~uint64_t(0) of the code.
CostInf == 2147483647

\* Fault: a sum that wraps around when it does not fit.
CostAddWraps(a, b) == IF a > CostInf - b THEN (a - (CostInf - b)) - 1 ELSE a + b

\* Cost::operator+: the sum, or inf when it does not fit.
CostAdd(a, b) == IF a > CostInf - b THEN CostInf ELSE a + b

\* The DataCostFn's the callers pass: "unit" is the one of extract().
DataCostFns == {"unit", "weighted"}

\* The same and "steep", a DataCostFn with which the sum for a node with a
\* child does not fit into a Cost.
CostFns == DataCostFns \cup {"steep"}

DataCost(fn, d) ==
  IF fn = "unit" THEN 1
  ELSE IF fn = "steep" THEN (IF d.kind = "F" THEN 2 ELSE CostInf - 1)
  ELSE IF d.kind = "F" THEN 1 ELSE IF d.value = 1 THEN 5 ELSE 2

RECURSIVE Fill(_, _)
Fill(n, v) == IF n = 0 THEN <<>> ELSE Append(Fill(n - 1, v), v)

RECURSIVE Ident(_)
Ident(n) == IF n = 0 THEN <<>> ELSE Append(Ident(n - 1), n)

\* The lambda of extract(DataCostFn): data_cost(node->data()) plus
\* costs.at(child) of every child, from slot i on.
RECURSIVE ChildCosts(_, _, _, _)
ChildCosts(S, costs, m, i) ==
  IF i > Len(S.children[m]) THEN 0
  ELSE CostAdd(costs[S.children[m][i]], ChildCosts(S, costs, m, i + 1))

NodeCost(S, fn, costs, m) == CostAdd(DataCost(fn, S.data[m]), ChildCosts(S, costs, m, 1))

\* costs.at(child) throws std::out_of_range for a child that is no key of costs
MissingKey(keys, S, m) == \E i \in 1..Len(S.children[m]) : S.children[m][i] \notin keys

\* The locals of extract(CostFn) and the e-graph: extracted and costs are
\* indexed by node and read at their keys only, queue is the set of QueueItems
\* in the priority_queue, ok is FALSE when an exception left the call or a
\* loop did not end, holds is FALSE when an assert failed.
ExtractInit(S) ==
  [ S |-> S, extracted |-> Ident(Len(S.data)), costs |-> Fill(Len(S.data), CostInf),
    keys |-> S.roots, queue |-> {}, ok |-> TRUE, holds |-> TRUE ]

\* Fault: a candidate replaces the representative only of a class that has none.
RelaxFirstOnly(C, root, m, cost) ==
  IF root \notin C.keys THEN [C EXCEPT !.ok = FALSE]
  ELSE IF cost < C.costs[root] /\ C.costs[root] = CostInf
    THEN [C EXCEPT !.queue = @ \cup {[node |-> root, cost |-> cost]},
                   !.extracted[root] = m, !.costs[root] = cost]
    ELSE C

\* if (cost < costs.at(root)) { queue.push(..); extracted.at(root) = node;
\* costs.at(root) = cost; }
Relax(C, root, m, cost) ==
  IF root \notin C.keys THEN [C EXCEPT !.ok = FALSE]
  ELSE IF cost < C.costs[root]
    THEN [C EXCEPT !.queue = @ \cup {[node |-> root, cost |-> cost]},
                   !.extracted[root] = m, !.costs[root] = cost]
    ELSE C

\* The body of "Insert leaf nodes" for the nodes yield[i..] of the class of root
RECURSIVE LeafFold(_, _, _, _, _)
LeafFold(C, fn, root, yield, i) ==
  IF i > Len(yield) \/ ~C.ok THEN C
  ELSE LET m == yield[i] IN
       IF Len(C.S.children[m]) = 0
         THEN LeafFold(Relax(C, root, m, NodeCost(C.S, fn, C.costs, m)), fn, root, yield, i + 1)
         ELSE LeafFold(C, fn, root, yield, i + 1)

\* Fault: no leaf is inserted.
InsertLeavesSkipped(C, fn, rs) == C

\* "Insert leaf nodes" for the roots rs.  The order in which _roots is walked
\* makes no difference to the locals: a root changes its own entries only.
RECURSIVE InsertLeaves(_, _, _)
InsertLeaves(C, fn, rs) ==
  IF rs = {} \/ ~C.ok THEN C
  ELSE LET root == CHOOSE r \in rs : TRUE
           run == IterateClass(C.S, root)
           C1 == [C EXCEPT !.S = run.S, !.ok = run.ok]
       IN InsertLeaves(LeafFold(C1, fn, root, run.yield, 1), fn, rs \ {root})

\* The body of the loop over the uses ring for the user m of item.node.
Visit(C, fn, item, m) ==
  LET cost == NodeCost(C.S, fn, C.costs, m) IN
  IF m \notin C.S.inHashcons THEN C
  ELSE IF MissingKey(C.keys, C.S, m) THEN [C EXCEPT !.ok = FALSE]
  ELSE Relax([C EXCEPT !.holds = @ /\ cost > item.cost, !.S.up = Compress(C.S.up, m)],
             Root(C.S.up, m), m, cost)

\* The loop over the uses ring of item.node, from record use on.
RECURSIVE UsersWalk(_, _, _, _, _)
UsersWalk(C, fn, item, use, fuel) ==
  IF ~C.ok THEN C
  ELSE IF fuel = 0 THEN [C EXCEPT !.ok = FALSE]
  ELSE LET C1 == Visit(C, fn, item, C.S.useNode[use])
       IN IF C.S.useNext[use] = C.S.uses[item.node] THEN C1
          ELSE UsersWalk(C1, fn, item, C.S.useNext[use], fuel - 1)

\* One turn of the while loop of extract(CostFn) that pops item.
Pop(C, fn, item) ==
  LET C1 == [C EXCEPT !.queue = @ \ {item}] IN
  IF item.cost # C1.costs[item.node] THEN C1
  ELSE IF C1.S.uses[item.node] = 0 THEN C1
  ELSE UsersWalk(C1, fn, item, C1.S.uses[item.node], Len(C1.S.useNode))

\* queue.top(): an item of the least cost; which one of several is up to the
\* heap of std::priority_queue.
Top(q) == { item \in q : \A other \in q : item.cost <= other.cost }

\* The while loop of extract(CostFn): the locals and the e-graph it can end with.
RECURSIVE ExtractLoop(_, _, _)
ExtractLoop(C, fn, fuel) ==
  IF ~C.ok \/ C.queue = {} THEN {C}
  ELSE IF fuel = 0 THEN {[C EXCEPT !.ok = FALSE]}
  ELSE UNION { ExtractLoop(Pop(C, fn, item), fn, fuel - 1) : item \in Top(C.queue) }

\* extract(DataCostFn) and extract(): the outcomes of the call on e-graph S.
Extract(S, fn) ==
  ExtractLoop(InsertLeaves(ExtractInit(S), fn, S.roots), fn,
              Len(S.data) * Len(S.data) + Len(S.data))

\* ------------------------------------------------------------------ Init
Init ==
  /\ data = <<>> /\ children = <<>> /\ rank = <<>> /\ up = <<>>
  /\ uses = <<>> /\ down = <<>> /\ downNext = <<>>
  /\ useNode = <<>> /\ useIdx = <<>> /\ useNext = <<>>
  /\ inHashcons = {} /\ roots = {}
  /\ queue = <<>> /\ pc = "idle" /\ changed = FALSE /\ walk = NoWalk
  /\ ret = [op |-> "none"]
  /\ origChildren = <<>> /\ asserted = <<>>
  /\ arenas = <<>> /\ blocks = <<>>

SetGraph(S) ==
  /\ data' = S.data /\ children' = S.children /\ rank' = S.rank /\ up' = S.up
  /\ uses' = S.uses /\ down' = S.down /\ downNext' = S.downNext
  /\ useNode' = S.useNode /\ useIdx' = S.useIdx /\ useNext' = S.useNext
  /\ inHashcons' = S.inHashcons /\ roots' = S.roots
  /\ queue' = S.queue /\ pc' = S.pc /\ changed' = S.changed /\ walk' = S.walk
  /\ UNCHANGED << arenas, blocks >>

\* The child sequences a caller may pass to node() with data d: every child
\* is a root (the assertion at the head of EGraph::node).
RECURSIVE SeqsOf(_, _)
SeqsOf(R, k) ==
  IF k = 0 THEN { <<>> }
  ELSE { Append(q, x) : q \in SeqsOf(R, k - 1), x \in R }

ChildSeqs(d) == UNION { SeqsOf({ x \in Nodes : up[x] = 0 }, k) : k \in Arities(d) }

\* ------------------------------------------------- the calls of the caller
\* What Hashcons::get found in EGraph::node: nothing, a root, or a node that
\* a merge has given a parent.
Hit(m) == IF m = 0 THEN "new" ELSE IF up[m] = 0 THEN "root" ELSE "demoted"

\* node(d, c) finds the node in the hashcons.
NodeHit(d, c) ==
  /\ pc = "idle"
  /\ Get(inHashcons, data, children, d, c) # 0
  /\ SetGraph(Node(Graph, d, c).S)
  /\ ret' = [op |-> "node", hit |-> Hit(Node(Graph, d, c).found)]
  /\ UNCHANGED << origChildren, asserted >>

\* The number of nodes up to which the callers allocate a node d(c).
InChain(d, c) == d.value = 0 /\ Len(c) <= 1

NodeCap(d, c) ==
  IF InChain(d, c) /\ \A x \in Nodes : InChain(data[x], children[x])
    THEN MaxChainNodes ELSE MaxNodes

\* The same for the callers that also iterate: they allocate no binary node.
IterCap(c) == IF Len(c) <= 1 THEN MaxIterNodes ELSE 0

\* The same for the callers whose terms are built of X and F alone.
UseCap(d) == IF d.value = 0 THEN MaxUseNodes ELSE 0

\* The same for the callers that fill a MergeQueue: a leaf and F's with one child.
BatchCap(d, c) == IF InChain(d, c) THEN MaxBatchNodes ELSE 0

\* node(d, c) allocates a node; cap bounds the number of nodes.
NodeNew(d, c, cap) ==
  /\ pc = "idle"
  /\ Get(inHashcons, data, children, d, c) = 0
  /\ Len(data) < cap
  /\ SetGraph(Node(Graph, d, c).S)
  /\ ret' = [op |-> "node", hit |-> Hit(Node(Graph, d, c).found)]
  /\ origChildren' = Append(origChildren, c)
  /\ asserted' = Close(Append(asserted, Len(data) + 1), Append(data, d), origChildren')

\* merge(a, b) from call to return; ret is the `changed` that the inner
\* merge(MergeQueue&) returns.  The MergeQueue of merge(a, b) is its own: a
\* queue the caller is filling stays as it is.
CallMerge(a, b) ==
  LET S == Merge(Graph, a, b) IN
  /\ pc = "idle"
  /\ S.pc = "return"
  /\ SetGraph([S EXCEPT !.pc = "idle", !.changed = FALSE, !.queue = queue])
  /\ ret' = [op |-> "merge", val |-> S.changed]
  /\ asserted' = Close(Unite(asserted, a, b), data, origChildren)
  /\ UNCHANGED origChildren

\* queue.merge(a, b) on the MergeQueue of the caller, which holds at most
\* MaxQueue pairs.
CallQueueMerge(a, b) ==
  /\ pc = "idle"
  /\ Len(queue) < MaxQueue
  /\ SetGraph(QueueMerge(Graph, a, b))
  /\ ret' = [op |-> "queue"]
  /\ asserted' = Close(Unite(asserted, a, b), data, origChildren)
  /\ UNCHANGED origChildren

\* merge(queue) on the MergeQueue of the caller, from call to return.
CallMergeQueue ==
  LET S == MergeQueued(Graph) IN
  /\ pc = "idle"
  /\ S.pc = "return"
  /\ SetGraph([S EXCEPT !.pc = "idle", !.changed = FALSE])
  /\ ret' = [op |-> "merge_queue", val |-> S.changed, size |-> Len(queue)]
  /\ UNCHANGED << origChildren, asserted >>

\* The matchers the callers use.
Matchers ==
  { [by |-> "data", data |-> [kind |-> "X", value |-> 0]],
    [by |-> "kind", kind |-> "X"], [by |-> "kind", kind |-> "F"] }

\* A complete iteration over the class of n.
CallIterate(n) ==
  LET r == IterateClass(Graph, n) IN
  /\ pc = "idle"
  /\ r.ok
  /\ SetGraph(r.S)
  /\ ret' = [op |-> "iterate", yield |-> r.yield]
  /\ UNCHANGED << origChildren, asserted >>

\* A complete iteration over the matches of matcher in the class of n.
CallMatch(n, matcher) ==
  LET r == IterateMatch(Graph, n, matcher) IN
  /\ pc = "idle"
  /\ r.ok
  /\ SetGraph(r.S)
  /\ ret' = [op |-> "match", yield |-> r.yield, count |-> Len(r.yield)]
  /\ UNCHANGED << origChildren, asserted >>

\* The matches of matcher in the class of n collected into a vector.
CallCollect(n, matcher) ==
  LET r == CollectMatch(Graph, n, matcher) IN
  /\ pc = "idle"
  /\ r.ok
  /\ SetGraph(r.S)
  /\ ret' = [op |-> "match", yield |-> r.yield, count |-> r.count]
  /\ UNCHANGED << origChildren, asserted >>

\* extract(data_cost) with the data cost fn, from call to return.  ok tells
\* that no exception left the call and no assert failed; the map returned is
\* not kept.
CallExtract(fn) ==
  \E C \in Extract(Graph, fn) :
    /\ pc = "idle"
    /\ SetGraph(C.S)
    /\ ret' = [op |-> "extract", ok |-> C.ok /\ C.holds]
    /\ UNCHANGED << origChildren, asserted >>

\* n->at(index) and (*n)[index]
CallAt(n, index) ==
  LET r == At(Graph, n, index) IN
  /\ pc = "idle"
  /\ SetGraph(r.S)
  /\ ret' = [op |-> "at", size |-> Len(children[n]), throws |-> r.throws, child |-> r.val]
  /\ UNCHANGED << origChildren, asserted >>

\* The sizes and alignments the callers of the allocator ask for; a size is
\* below Arena::SIZE (the assertion at the head of ArenaAllocator::alloc).
Sizes == { 24, ArenaSize \div 2, ArenaSize - 16, ArenaSize - 1 }

Alignments == { 1, 8, 16 }

\* The addresses left for a new slab
FreeBases == { b \in Bases : \A i \in 1..Len(arenas) : arenas[i].data \div (2 * ArenaSize) # b \div (2 * ArenaSize) }

\* ArenaAllocator::ArenaAllocator
NewAllocator(base) ==
  /\ arenas = <<>>
  /\ arenas' = << NewArena(base) >>
  /\ ret' = [op |-> "allocator"]
  /\ UNCHANGED << data, children, rank, up, uses, down, downNext, useNode, useIdx,
                  useNext, inHashcons, roots, queue, pc, changed, walk,
                  origChildren, asserted, blocks >>

\* allocator.alloc(size, alignment)
CallAlloc(size, alignment) ==
  /\ arenas # <<>>
  /\ Len(blocks) < MaxAllocs
  /\ \E base \in FreeBases :
       LET r == Alloc(arenas, size, alignment, base) IN
       /\ arenas' = r.arenas
       /\ blocks' = Append(blocks, [ptr |-> r.ptr, size |-> size])
       /\ ret' = [op |-> "alloc", ptr |-> r.ptr, ok |-> r.holds]
  /\ UNCHANGED << data, children, rank, up, uses, down, downNext, useNode, useIdx,
                  useNext, inHashcons, roots, queue, pc, changed, walk,
                  origChildren, asserted >>

\* n->root() called by the user of the e-graph; steps is the number of
\* nodes the first loop visits.
CallRoot(n) ==
  /\ pc = "idle"
  /\ SetGraph([Graph EXCEPT !.up = Compress(up, n)])
  /\ ret' = [op |-> "root", arg |-> n, node |-> Root(up, n), steps |-> Len(UpPath(up, n, Len(up)))]
  /\ UNCHANGED << origChildren, asserted >>

Next ==
  \/ \E d \in Datas : \E c \in ChildSeqs(d) : NodeHit(d, c)
  \/ \E d \in Datas : \E c \in ChildSeqs(d) : NodeNew(d, c, NodeCap(d, c))
  \/ \E a \in Nodes : \E b \in Nodes : CallMerge(a, b)

Spec == Init /\ [][Next]_vars

\* node, merge and the iterations ------------------------------------------
NextIter ==
  \/ \E d \in Datas : \E c \in ChildSeqs(d) : NodeHit(d, c)
  \/ \E d \in Datas : \E c \in ChildSeqs(d) : NodeNew(d, c, IterCap(c))
  \/ \E a \in Nodes : \E b \in Nodes : CallMerge(a, b)
  \/ \E n \in Nodes : CallIterate(n)
  \/ \E n \in Nodes : \E matcher \in Matchers : CallMatch(n, matcher)
  \/ \E n \in Nodes : \E matcher \in Matchers : CallCollect(n, matcher)

SpecIter == Init /\ [][NextIter]_vars

\* node, merge, queue.merge and merge(queue): the callers build terms while
\* their MergeQueue is empty, then fill the queue and drain it.
NextBatch ==
  \/ \E d \in Datas : \E c \in ChildSeqs(d) : queue = <<>> /\ NodeNew(d, c, BatchCap(d, c))
  \/ \E a \in Nodes : \E b \in Nodes : CallMerge(a, b)
  \/ \E a \in Nodes : \E b \in Nodes : CallQueueMerge(a, b)
  \/ CallMergeQueue

SpecBatch == Init /\ [][NextBatch]_vars

\* merge(a, b) as the steps of its loop -------------------------------------
EnterMerge(a, b) ==
  /\ pc = "idle"
  /\ SetGraph([QueueMerge([Graph EXCEPT !.queue = <<>>], a, b)
                 EXCEPT !.pc = "drain", !.changed = FALSE])
  /\ ret' = [op |-> "none"]
  /\ asserted' = Close(Unite(asserted, a, b), data, origChildren)
  /\ UNCHANGED origChildren

StepMerge ==
  LET S == MergeStep(Graph) IN
  /\ pc \in {"drain", "walk"}
  /\ IF S.pc = "return"
       THEN /\ SetGraph([S EXCEPT !.pc = "idle", !.changed = FALSE])
            /\ ret' = [op |-> "merge", val |-> S.changed]
       ELSE SetGraph(S) /\ UNCHANGED ret
  /\ UNCHANGED << origChildren, asserted >>

NextSteps ==
  \/ \E d \in Datas : \E c \in ChildSeqs(d) : NodeHit(d, c)
  \/ \E d \in Datas : \E c \in ChildSeqs(d) : NodeNew(d, c, NodeCap(d, c))
  \/ \E a \in Nodes : \E b \in Nodes : EnterMerge(a, b)
  \/ StepMerge

SpecSteps == Init /\ [][NextSteps]_vars

\* merge(queue) on the MergeQueue of the caller as the steps of its loop -----
EnterMergeQueue ==
  /\ pc = "idle"
  /\ SetGraph([Graph EXCEPT !.pc = "drain", !.changed = FALSE])
  /\ ret' = [op |-> "none"]
  /\ UNCHANGED << origChildren, asserted >>

NextBatchSteps ==
  \/ \E d \in Datas : \E c \in ChildSeqs(d) : queue = <<>> /\ NodeNew(d, c, BatchCap(d, c))
  \/ \E a \in Nodes : \E b \in Nodes : CallQueueMerge(a, b)
  \/ EnterMergeQueue
  \/ StepMerge

SpecBatchSteps == Init /\ [][NextBatchSteps]_vars

\* node, merge and extract -------------------------------------------------
NextExtract ==
  \/ \E d \in Datas : \E c \in ChildSeqs(d) : NodeNew(d, c, MaxExtractNodes)
  \/ \E a \in Nodes : \E b \in Nodes : CallMerge(a, b)
  \/ \E fn \in DataCostFns : CallExtract(fn)

SpecExtract == Init /\ [][NextExtract]_vars

\* node, merge and extract with costs up to Cost::inf -------------------------
NextSaturate ==
  \/ \E d \in Datas : \E c \in ChildSeqs(d) : NodeNew(d, c, MaxExtractNodes)
  \/ \E a \in Nodes : \E b \in Nodes : CallMerge(a, b)
  \/ \E fn \in CostFns : CallExtract(fn)

SpecSaturate == Init /\ [][NextSaturate]_vars

\* node, merge and child access ----------------------------------------------
NextAt ==
  \/ \E d \in Datas : \E c \in ChildSeqs(d) : NodeNew(d, c, MaxAtNodes)
  \/ \E a \in Nodes : \E b \in Nodes : CallMerge(a, b)
  \/ \E n \in Nodes : \E index \in 0..MaxIndex : CallAt(n, index)

SpecAt == Init /\ [][NextAt]_vars

\* node, merge, the iterations and extract -----------------------------------
NextAll ==
  \/ NextIter
  \/ \E fn \in DataCostFns : CallExtract(fn)

SpecAll == Init /\ [][NextAll]_vars

\* merge(a, b) as the steps of its loop, on terms of X and F -----------------
NextUses ==
  \/ \E d \in Datas : \E c \in ChildSeqs(d) : NodeHit(d, c)
  \/ \E d \in Datas : \E c \in ChildSeqs(d) : NodeNew(d, c, UseCap(d))
  \/ \E a \in Nodes : \E b \in Nodes : EnterMerge(a, b)
  \/ StepMerge

SpecUses == Init /\ [][NextUses]_vars

\* node, merge, the iterations and extract, on terms of X and F ---------------
NextRings ==
  \/ \E d \in Datas : \E c \in ChildSeqs(d) : NodeHit(d, c)
  \/ \E d \in Datas : \E c \in ChildSeqs(d) : NodeNew(d, c, UseCap(d))
  \/ \E a \in Nodes : \E b \in Nodes : CallMerge(a, b)
  \/ \E n \in Nodes : CallIterate(n)
  \/ \E n \in Nodes : \E matcher \in Matchers : CallMatch(n, matcher)
  \/ \E fn \in DataCostFns : CallExtract(fn)

SpecRings == Init /\ [][NextRings]_vars

\* node, merge and root ------------------------------------------------------
NextRoot ==
  \/ \E d \in Datas : \E c \in ChildSeqs(d) : NodeHit(d, c)
  \/ \E d \in Datas : \E c \in ChildSeqs(d) : NodeNew(d, c, NodeCap(d, c))
  \/ \E a \in Nodes : \E b \in Nodes : CallMerge(a, b)
  \/ \E n \in Nodes : CallRoot(n)

SpecRoot == Init /\ [][NextRoot]_vars

\* an ArenaAllocator and its callers ------------------------------------------
NextArena ==
  \/ \E base \in Bases : NewAllocator(base)
  \/ \E size \in Sizes : \E alignment \in Alignments : CallAlloc(size, alignment)

SpecArena == Init /\ [][NextArena]_vars

\* ------------------------------------------------------------ properties
ToSet(q) == { q[i] : i \in DOMAIN q }

\* C1: after merge(a, b) returns, root(a) = root(b), and the call separates
\* no two nodes that had a common root (so merges of X with Y and of Y with Z
\* leave X, Y and Z with one root); this in every state the calls reach.
C1_MergeUnites ==
  pc = "idle" =>
    \A a \in Nodes : \A b \in Nodes :
      LET S == Merge(Graph, a, b)
      IN /\ S.pc = "return"
         /\ Root(S.up, a) = Root(S.up, b)
         /\ \A x \in Nodes : \A y \in Nodes :
              Root(up, x) = Root(up, y) => Root(S.up, x) = Root(S.up, y)

C1_Witness ==
  /\ ret.op = "merge" /\ ret.val
  /\ \E r \in roots : Cardinality({ x \in Nodes : Root(up, x) = r }) >= 3

\* C2: when merge has returned, two nodes (in the hashcons, or evicted from
\* it as duplicates) with equal data, equal child count and children of the
\* same class in every slot are in the same class.
C2_UpwardCongruence ==
  pc = "idle" =>
    \A n1 \in Nodes : \A n2 \in Nodes :
      ( /\ data[n1] = data[n2]
        /\ Len(children[n1]) = Len(children[n2])
        /\ \A i \in 1..Len(children[n1]) :
             Root(up, children[n1][i]) = Root(up, children[n2][i]) )
      => Root(up, n1) = Root(up, n2)

\* G(F(X)) and G(F(Y)) were equated by a merge although F(X) # F(Y) and X # Y
\* when they were built.
C2_Witness ==
  /\ ret.op = "merge" /\ ret.val
  /\ \E p \in Nodes : \E q \in Nodes :
       /\ p # q /\ Root(up, p) = Root(up, q) /\ data[p] = data[q]
       /\ Len(origChildren[p]) = 1 /\ Len(origChildren[q]) = 1
       /\ LET cp == origChildren[p][1]
              cq == origChildren[q][1]
          IN /\ cp # cq /\ data[cp] = data[cq]
             /\ Len(origChildren[cp]) = 1 /\ Len(origChildren[cq]) = 1
             /\ origChildren[cp][1] # origChildren[cq][1]

\* C3: two nodes have a common root only if the least congruence generated
\* by the pairs passed to merge relates them.
C3_MergeSound ==
  \A x \in Nodes : \A y \in Nodes :
    Root(up, x) = Root(up, y) => asserted[x] = asserted[y]

\* After a merge that united classes, two nodes with equal data and one
\* child each are still in different classes.
C3_Witness ==
  /\ ret.op = "merge" /\ ret.val
  /\ \E p \in Nodes : \E q \in Nodes :
       /\ data[p] = data[q] /\ Len(children[p]) = 1 /\ Len(children[q]) = 1
       /\ Root(up, p) # Root(up, q)

\* C4: a second node(d, c) right after a first returns the same node,
\* creates no node and leaves roots unchanged; and while no union has been
\* performed, calls with different arguments return different nodes.
Keys == { [d |-> d, c |-> c] : d \in Datas, c \in UNION { ChildSeqs(e) : e \in Datas } }

C4_NodeHashConsed ==
  pc = "idle" =>
    /\ \A d \in Datas : \A c \in ChildSeqs(d) :
         LET first  == Node(Graph, d, c)
             second == Node(first.S, d, c)
         IN /\ second.ret = first.ret
            /\ Len(second.S.data) = Len(first.S.data)
            /\ second.S.roots = first.S.roots
    /\ (\A x \in Nodes : up[x] = 0) =>
         \A k1 \in Keys : \A k2 \in Keys :
           k1 # k2 =>
             LET r1 == Node(Graph, k1.d, k1.c)
                 r2 == Node(r1.S, k2.d, k2.c)
             IN r1.ret # r2.ret

C4_Witness ==
  /\ ret.op = "node" /\ ret.hit # "new"
  /\ Len(data) >= 3

\* C5: in every state, also inside a merge, no two nodes in the hashcons
\* have equal data, equal child count and identical children.
C5_HashconsUnique ==
  \A m1 \in inHashcons : \A m2 \in inHashcons :
    m1 # m2 => ~ (data[m1] = data[m2] /\ children[m1] = children[m2])

\* Inside a merge, a node is out of the hashcons and a node with its key is in it.
C5_Witness ==
  /\ pc \in {"drain", "walk"}
  /\ \E p \in Nodes \ inHashcons : \E q \in inHashcons :
       data[p] = data[q] /\ children[p] = children[q]

\* C6: node() returns a root, also when the lookup hits a demoted node, so
\* the result can be a child of a later node() call.
C6_NodeReturnsRoot ==
  pc = "idle" =>
    \A d \in Datas : \A c \in ChildSeqs(d) :
      LET r == Node(Graph, d, c)
      IN /\ r.ret \in 1..Len(r.S.data)
         /\ r.S.up[r.ret] = 0
         /\ r.ret \in r.S.roots

C6_Witness ==
  /\ ret.op = "node" /\ ret.hit = "demoted"

\* C7: roots() is the set of nodes without up; a call adds exactly the nodes
\* it allocates and removes exactly the nodes that got an up parent.
RootsExact == pc = "idle" => roots = { x \in Nodes : up[x] = 0 }

C7_RootsExact ==
  /\ []RootsExact
  /\ [][ /\ roots' \ roots = (1..Len(data')) \ Nodes
         /\ roots \ roots' = { x \in Nodes : up[x] = 0 /\ up'[x] # 0 } ]_vars

C7_Witness ==
  /\ ret.op = "merge" /\ ret.val
  /\ \E x \in Nodes : up[x] # 0 /\ x \notin roots
  /\ \E x \in Nodes : up[x] = 0 /\ x \in roots /\ x \notin inHashcons

LiveClass(n) == { m \in inHashcons : Root(up, m) = Root(up, n) }

NoDuplicate(q) == Cardinality(ToSet(q)) = Len(q)

\* C8: a complete iteration over the class of n ends and yields exactly the
\* nodes in the hashcons whose root is root(n), each once, from whichever
\* member n of the class it is started.
C8_ClassIteration ==
  pc = "idle" =>
    \A n \in Nodes :
      LET run == IterateClass(Graph, n)
      IN /\ run.ok
         /\ ToSet(run.yield) = LiveClass(n)
         /\ NoDuplicate(run.yield)
         /\ \A n2 \in Nodes :
              Root(up, n2) = Root(up, n) =>
                ToSet(IterateClass(Graph, n2).yield) = ToSet(run.yield)

\* The iteration yielded two nodes of a class that has a member outside the hashcons.
C8_Witness ==
  /\ ret.op = "iterate" /\ Len(ret.yield) >= 2
  /\ \E m \in Nodes \ inHashcons : Root(up, m) = Root(up, ret.yield[1])

Satisfies(matcher, m) ==
  \/ matcher.by = "kind" /\ data[m].kind = matcher.kind
  \/ matcher.by = "data" /\ data[m] = matcher.data

\* C9: match(kind) and match(data) yield exactly the nodes of the unfiltered
\* iteration that satisfy the predicate, each once; the count is the same
\* from every member of the class and when the traversal is repeated, also
\* with begin() and end() taken from two match() calls.
C9_MatchIteration ==
  pc = "idle" =>
    \A n \in Nodes : \A matcher \in Matchers :
      LET all      == IterateClass(Graph, n)
          expected == { m \in ToSet(all.yield) : Satisfies(matcher, m) }
          run      == IterateMatch(Graph, n, matcher)
          vec      == CollectMatch(Graph, n, matcher)
          top      == Root(up, n)
      IN /\ run.ok /\ ToSet(run.yield) = expected /\ NoDuplicate(run.yield)
         /\ vec.ok /\ ToSet(vec.yield) = expected /\ NoDuplicate(vec.yield)
         /\ vec.count = Len(vec.yield)
         /\ Len(IterateMatch(Graph, top, matcher).yield) = Len(run.yield)
         /\ CollectMatch(Graph, top, matcher).count = Len(run.yield)
         /\ Len(IterateMatch(run.S, n, matcher).yield) = Len(run.yield)
         /\ CollectMatch(vec.S, n, matcher).count = Len(run.yield)
         /\ CollectMatch(run.S, n, matcher).count = Len(run.yield)

\* A match iteration yielded a node and left out a node of the class that is
\* in the hashcons.
C9_Witness ==
  /\ ret.op = "match" /\ Len(ret.yield) >= 1
  /\ \E m \in inHashcons : Root(up, m) = Root(up, ret.yield[1]) /\ m \notin ToSet(ret.yield)

Equivalent(ps) == \A i \in 1..Len(ps) : Root(up, ps[i][1]) = Root(up, ps[i][2])

\* The e-graph S has the roots, hashcons, children and classes of this state.
SameAs(S) ==
  /\ S.roots = roots /\ S.inHashcons = inHashcons /\ S.children = children
  /\ \A x \in Nodes : Root(S.up, x) = Root(up, x)

RemergeIsNoOp ==
  pc = "idle" =>
    /\ Equivalent(queue) =>
         LET S == MergeQueued(Graph)
         IN S.pc = "return" /\ ~ S.changed /\ SameAs(S)
    /\ queue = <<>> =>
         \A a \in Nodes : \A b \in Nodes :
           Root(up, a) = Root(up, b) =>
             LET S == Merge(Graph, a, b)
             IN S.pc = "return" /\ ~ S.changed /\ SameAs(S)

UnionDone == \E x \in Nodes : up[x] = 0 /\ up'[x] # 0

\* C10: merge(queue) returns true exactly when the drain united two distinct
\* classes; a merge of pairs that are already equivalent (a = b included)
\* returns false and leaves roots, hashcons membership, children and class
\* membership as they were.
C10_ChangedExact ==
  /\ []RemergeIsNoOp
  /\ [][ ret'.op \in {"merge", "merge_queue"} =>
           /\ ret'.val <=> UnionDone
           /\ ~ UnionDone => SameAs(Graph') ]_vars

\* merge(queue) returned false on a queue of pairs that were in different
\* classes when they were queued and that other merges have united since.
C10_Witness ==
  /\ ret.op = "merge_queue" /\ ~ ret.val
  /\ ret.size >= 1

\* The partition of the nodes into classes under the parents u.
Partition(u) ==
  { { y \in 1..Len(u) : Root(u, y) = Root(u, x) } : x \in 1..Len(u) }

Without(q, i) == SubSeq(q, 1, i - 1) \o SubSeq(q, i + 1, Len(q))

RECURSIVE Perms(_)
Perms(q) ==
  IF q = <<>> THEN { <<>> }
  ELSE UNION { { <<q[i]>> \o p : p \in Perms(Without(q, i)) } : i \in 1..Len(q) }

\* C11: for the e-graph of a state and the pairs its caller has queued,
\* every order of enqueuing the pairs ends, after merge(queue), in the same
\* partition of the nodes into classes.
C11_OrderIndependent ==
  pc = "idle" =>
    \A ps \in Perms(queue) :
      LET S == MergeQueued(Requeued(Graph, ps))
      IN /\ S.pc = "return"
         /\ Partition(S.up) = Partition(MergeQueued(Requeued(Graph, queue)).up)

\* Two pairs are queued whose two orders end, after two unions, in the same
\* partition with different roots.
C11_Witness ==
  /\ pc = "idle" /\ Len(queue) = 2 /\ ret.op = "queue"
  /\ \E ps \in Perms(queue) :
       /\ MergeQueued(Requeued(Graph, ps)).roots # MergeQueued(Requeued(Graph, queue)).roots
       /\ Cardinality(roots) - Cardinality(MergeQueued(Requeued(Graph, ps)).roots) >= 2

NewParents == { x \in Nodes : up[x] = 0 /\ up'[x] # 0 }

\* The use records that the walk over the users has still to visit.
RECURSIVE Ahead(_, _, _, _)
Ahead(nx, use, last, fuel) ==
  IF use = last \/ fuel = 0 THEN 1 ELSE 1 + Ahead(nx, nx[use], last, fuel - 1)

WalkAhead == IF pc = "walk" THEN Ahead(useNext, walk.use, walk.last, Len(useNext)) ELSE 0

\* Every step of a running merge changes the e-graph or the worklist.
DrainMoves == pc \in {"drain", "walk"} => MergeStep(Graph) # Graph

\* C12: a step of the drain on a pair of distinct roots makes exactly one
\* union and roots loses exactly one node; a step on a pair of equal roots
\* and a step of the walk over the users make none; and every step of a
\* running merge moves and decreases (number of roots, use records still to
\* walk, length of the worklist) in lexicographic order, so that the merge
\* returns, with the worklist empty.
C12_DrainTerminates ==
  /\ []DrainMoves
  /\ [][ (pc = "drain" /\ queue # <<>>) =>
           IF Root(up, Head(queue)[1]) = Root(up, Head(queue)[2])
             THEN NewParents = {} /\ roots' = roots /\ Len(queue') = Len(queue) - 1
             ELSE /\ Cardinality(NewParents) = 1
                  /\ roots' = roots \ NewParents ]_vars
  /\ [][ pc = "walk" => (NewParents = {} /\ roots' = roots) ]_vars
  /\ [][ (pc \in {"drain", "walk"} /\ pc' # "idle") =>
           \/ Cardinality(roots') < Cardinality(roots)
           \/ /\ roots' = roots
              /\ WalkAhead' < WalkAhead
           \/ /\ roots' = roots
              /\ WalkAhead' = WalkAhead
              /\ Len(queue') < Len(queue) ]_vars
  /\ [][ (pc \in {"drain", "walk"} /\ pc' = "idle") => (queue = <<>> /\ queue' = <<>>) ]_vars

\* Inside a drain, after a union, the pair at the head of the worklist has
\* equal roots and the worklist holds a pair behind it.
C12_Witness ==
  /\ pc = "drain" /\ changed /\ Len(queue) >= 2
  /\ Root(up, Head(queue)[1]) = Root(up, Head(queue)[2])

\* The least element of a non-empty set of costs
Least(cs) == CHOOSE c \in cs : \A other \in cs : c <= other

\* The cost of the term with node m on top and, below it, terms of the costs
\* best for the classes of its children.
RECURSIVE BelowCost(_, _, _, _)
BelowCost(S, best, m, i) ==
  IF i > Len(S.children[m]) THEN 0
  ELSE CostAdd(best[Root(S.up, S.children[m][i])], BelowCost(S, best, m, i + 1))

TermCost(S, fn, best, m) == CostAdd(DataCost(fn, S.data[m]), BelowCost(S, best, m, 1))

\* One more level of terms: for the nodes 1..k, the least cost of a term of
\* the class of the node that has a node of the class on top, in the
\* hashcons or not, and terms of the costs prev below it.
RECURSIVE Deeper(_, _, _, _)
Deeper(S, fn, prev, k) ==
  IF k = 0 THEN <<>>
  ELSE Append(Deeper(S, fn, prev, k - 1),
              Least({ TermCost(S, fn, prev, m) :
                        m \in { x \in 1..Len(S.data) : Root(S.up, x) = Root(S.up, k) } }))

\* The least cost of a term of at most depth levels, for the class of each node
RECURSIVE LeastCost(_, _, _)
LeastCost(S, fn, depth) ==
  IF depth = 0 THEN Fill(Len(S.data), CostInf)
  ELSE Deeper(S, fn, LeastCost(S, fn, depth - 1), Len(S.data))

\* The least cost of a finite term of the class of each node: a term of least
\* cost has no class twice on a path, so no more levels than there are nodes.
MinCost(S, fn) == LeastCost(S, fn, Len(S.data))

\* C13: for the default cost and for a strictly positive cost per data,
\* extract returns for every class a node of the class that is the top of a
\* term of the least cost among the finite terms of the class, the cost of a
\* term being the sum of the data costs of its nodes; also for classes that
\* have a node with a child in the class itself.
C13_ExtractMinimal ==
  pc = "idle" =>
    \A fn \in DataCostFns :
      LET best == MinCost(Graph, fn) IN
      \A C \in Extract(Graph, fn) :
        /\ C.ok
        /\ \A r \in roots :
             /\ Root(up, C.extracted[r]) = r
             /\ best[r] < CostInf
             /\ C.costs[r] = best[r]
             /\ TermCost(Graph, fn, best, C.extracted[r]) = best[r]

C13_Witness ==
  /\ pc = "idle" /\ ret.op = "extract" /\ ret.ok
  /\ \E m \in inHashcons :
       /\ \E i \in 1..Len(children[m]) : Root(up, children[m][i]) = Root(up, m)
       /\ TermCost(Graph, "weighted", MinCost(Graph, "weighted"), m)
            > MinCost(Graph, "weighted")[m]

C15_ExtractReadOnly ==
  [][ ret'.op = "extract" =>
        /\ roots' = roots
        /\ \A x \in Nodes : Root(up', x) = Root(up, x)
        /\ children' = children /\ data' = data
        /\ inHashcons' = inHashcons
        /\ \A n \in Nodes :
             /\ IterateClass(Graph', n).ok
             /\ ToSet(IterateClass(Graph', n).yield) = ToSet(IterateClass(Graph, n).yield) ]_vars

C15_Witness ==
  /\ pc = "idle" /\ ret.op = "extract" /\ ret.ok
  /\ \E n \in Nodes : n \notin inHashcons /\ \A x \in Nodes : downNext[x] # n

\* C16: at(i) and operator[](i) on a node with i at or above its child count
\* raise egraphs::Error, on a leaf for every i, and change nothing; with i
\* below the child count they return the child now stored in slot i.
C16_AtChecked ==
  pc = "idle" =>
    \A n \in Nodes : \A index \in 0..MaxIndex :
      /\ At(Graph, n, index).S = Graph
      /\ index >= Len(children[n]) => At(Graph, n, index).throws = "Error"
      /\ index < Len(children[n]) =>
           /\ At(Graph, n, index).throws = "none"
           /\ At(Graph, n, index).val = children[n][index + 1]

C16_Witness ==
  /\ pc = "idle" /\ ret.op = "at" /\ ret.throws = "Error" /\ ret.size = 0
  /\ \E n \in Nodes : Len(children[n]) = 2 /\ children[n] # origChildren[n]

\* A node in the hashcons other than x, of the class of x, with the data of
\* x and children of the classes of the children of x
LiveTwin(x) ==
  \E m \in inHashcons \ {x} :
    /\ Root(up, m) = Root(up, x)
    /\ data[m] = data[x] /\ Len(children[m]) = Len(children[x])
    /\ \A i \in 1..Len(children[x]) : Root(up, children[m][i]) = Root(up, children[x][i])

\* C17 as stated (I2): after every node() and merge() call every root is in
\* roots and in the hashcons.
C17_RootsInHashcons ==
  pc = "idle" => \A x \in Nodes : up[x] = 0 => x \in roots /\ x \in inHashcons

\* C17 as amended: after every node() and merge() call every root is in
\* roots, and a root that is not in the hashcons has in its class a node in
\* the hashcons with its data and children of the same classes: a merge
\* dropped it for that duplicate.
C17_RootsKept ==
  pc = "idle" =>
    \A x \in Nodes : up[x] = 0 => x \in roots /\ (x \in inHashcons \/ LiveTwin(x))

C17_Witness ==
  /\ pc = "idle" /\ ret.op = "merge"
  /\ \E x \in Nodes : up[x] = 0 /\ x \in roots /\ x \notin inHashcons /\ LiveTwin(x)

\* C18 as stated: the loser of a union is removed from the hashcons, so that
\* once merge has returned no node with a parent is in the hashcons.
C18_NoDemotedInHashcons ==
  pc = "idle" => \A x \in inHashcons : up[x] = 0

\* C18 as amended: a union leaves its loser in the hashcons.  A node leaves
\* the hashcons only in the "Update users" loop, when another node in the
\* hashcons has its data and its rewritten children, and no other step of
\* node() or merge() takes a node out; a node with a parent can be in the
\* hashcons once merge has returned.
C18_LoserKept ==
  [][ \A x \in inHashcons \ inHashcons' :
        /\ pc = "walk"
        /\ x = useNode[walk.use]
        /\ \E m \in inHashcons' \ {x} : data[m] = data[x] /\ children'[m] = children'[x] ]_vars

C18_Witness ==
  /\ pc = "idle" /\ ret.op = "merge" /\ ret.val
  /\ \E x \in inHashcons : up[x] # 0 /\ rank[up[x]] > rank[x]
  /\ \E x \in Nodes : x \notin inHashcons

\* The nodes of the Down records from cur on, on the ring that start is on,
\* in the order of the ring; a 0 at the end when the walk does not come back
\* to start.
RECURSIVE RingWalk(_, _, _, _, _)
RingWalk(dn, start, cur, acc, fuel) ==
  IF dn[cur] = start THEN Append(acc, DownNode(cur))
  ELSE IF fuel = 0 THEN Append(Append(acc, DownNode(cur)), 0)
  ELSE RingWalk(dn, start, dn[cur], Append(acc, DownNode(cur)), fuel - 1)

\* The down ring reached from the down record of root r
Ring(dn, dwn, r) == RingWalk(dn, dwn[r], dwn[r], <<>>, Len(dn))

\* The nodes of the class of root r
Class(u, r) == { x \in 1..Len(u) : Root(u, x) = r }

\* x is on the down ring of the root of its class
OnRing(dn, dwn, u, x) == x \in ToSet(Ring(dn, dwn, Root(u, x)))

C20_ChildrenAreRoots ==
  pc = "idle" =>
    \A m \in inHashcons : \A i \in 1..Len(children[m]) :
      up[children[m][i]] = 0 /\ children[m][i] \in roots

C20_Witness ==
  /\ pc = "idle" /\ ret.op = "merge" /\ ret.val
  /\ \E m \in inHashcons :
       /\ up[m] # 0
       /\ Len(children[m]) = 2
       /\ children[m][1] = children[m][2]
       /\ origChildren[m][1] # origChildren[m][2]

\* The Use records from cur on, on the ring that start is on, in the order
\* of the ring; a 0 at the end when the walk does not come back to start.
RECURSIVE UsesWalk(_, _, _, _, _)
UsesWalk(nx, start, cur, acc, fuel) ==
  IF nx[cur] = start THEN Append(acc, cur)
  ELSE IF fuel = 0 THEN Append(Append(acc, cur), 0)
  ELSE UsesWalk(nx, start, nx[cur], Append(acc, cur), fuel - 1)

\* The uses ring of node r: the records reached from r->_uses
UsesRing(us, nx, r) ==
  IF us[r] = 0 THEN <<>> ELSE UsesWalk(nx, us[r], us[r], <<>>, Len(nx))

\* C21 (I3): after every node() and merge() call, for every root r and every
\* use record (parent, slot) on the uses ring of r, slot holds r in parent or
\* parent is not in the hashcons.
C21_UsesPointBack ==
  pc = "idle" =>
    \A r \in Nodes : up[r] = 0 =>
      \A u \in ToSet(UsesRing(uses, useNext, r)) :
        /\ u # 0
        /\ children[useNode[u]][useIdx[u] + 1] = r \/ useNode[u] \notin inHashcons

C21_Witness ==
  /\ pc = "idle" /\ ret.op = "merge" /\ ret.val
  /\ \E r \in Nodes :
       /\ up[r] = 0
       /\ \E u \in ToSet(UsesRing(uses, useNext, r)) :
            u # 0 /\ useNode[u] \notin inHashcons
       /\ \E u \in ToSet(UsesRing(uses, useNext, r)) :
            u # 0 /\ useNode[u] \in inHashcons /\ origChildren[useNode[u]][useIdx[u] + 1] # r

\* C22 (I5): in every state the up pointers form a forest, and the rank of
\* the parent of a node is at least the rank of the node; a union gives the
\* loser the winner as parent only when the rank of the loser is at most the
\* rank of the winner, and adds one to the rank of the winner exactly when
\* the two ranks were equal; no other rank changes.
C22_Forest ==
  /\ [](\A n \in Nodes :
          /\ Root(up, n) # 0
          /\ up[n] # 0 => rank[up[n]] >= rank[n])
  /\ [][ \A x \in Nodes : up[x] = 0 /\ up'[x] # 0 =>
           /\ up[up'[x]] = 0 /\ up'[up'[x]] = 0
           /\ rank[x] <= rank[up'[x]]
           /\ rank'[up'[x]] = IF rank[x] = rank[up'[x]] THEN rank[x] + 1 ELSE rank[up'[x]]
           /\ \A y \in Nodes \ {up'[x]} : rank'[y] = rank[y] ]_vars
  /\ [][ (\A x \in Nodes : up[x] = 0 => up'[x] = 0) =>
           \A y \in Nodes : rank'[y] = rank[y] ]_vars

C22_Witness ==
  /\ pc = "idle" /\ ret.op = "merge"
  /\ \E n \in Nodes : up[n] # 0 /\ rank[n] = 1 /\ rank[up[n]] = 2
  /\ \E n \in Nodes : up[n] # 0 /\ up[up[n]] # 0

\* C23: in a union step with the canonical operands ra = root(a) and
\* rb = root(b), ra # rb, the new root is the one of the strictly greater
\* rank, and rb when the ranks are equal; the other one is the loser, and
\* its up pointer is the only one the union sets: every other up pointer is
\* as the two calls of root() left it.
C23_WinnerByRank ==
  [][ pc = "drain" /\ queue # <<>> =>
        LET a  == Head(queue)[1]
            b  == Head(queue)[2]
            ra == Root(up, a)
            rb == Root(up, b)
            winner == IF rank[ra] > rank[rb] THEN ra ELSE rb
            loser  == IF rank[ra] > rank[rb] THEN rb ELSE ra
        IN ra # rb =>
             /\ up' = [Compress(Compress(up, a), b) EXCEPT ![loser] = winner]
             /\ up'[winner] = 0
             /\ roots' = roots \ {loser} ]_vars

C23_Witness ==
  /\ pc = "drain" /\ changed /\ queue # <<>>
  /\ rank[Root(up, Head(queue)[1])] > rank[Root(up, Head(queue)[2])]

\* C24: every alloc(size, alignment) with size below the slab size returns a
\* block that is not null, lies inside one slab and overlaps no block
\* returned before; the assertion ptr != nullptr never fails, also for a size
\* within one alignment unit of the slab size.
C24_AllocNeverFails ==
  /\ ret.op = "alloc" => ret.ok
  /\ \A i \in 1..Len(blocks) :
       /\ blocks[i].ptr # 0
       /\ \E k \in 1..Len(arenas) :
            /\ arenas[k].data <= blocks[i].ptr
            /\ blocks[i].ptr + blocks[i].size <= arenas[k].data + ArenaSize
       /\ \A j \in 1..(i - 1) :
            \/ blocks[j].ptr + blocks[j].size <= blocks[i].ptr
            \/ blocks[i].ptr + blocks[i].size <= blocks[j].ptr

\* C25 as stated: after one complete traversal of a class every node of the
\* class that is not in the hashcons is off the down ring, and every node in
\* the hashcons that was on the ring is still on it.
C25_RingCompacted ==
  pc = "idle" =>
    \A n \in Nodes :
      LET run == IterateClass(Graph, n)
          r   == Root(up, n)
      IN /\ run.ok
         /\ ToSet(Ring(run.S.downNext, down, r)) \subseteq inHashcons
         /\ ToSet(Ring(downNext, down, r)) \cap inHashcons
              \subseteq ToSet(Ring(run.S.downNext, down, r))

\* The nodes of ring q that are out of the hashcons hc and come after a node
\* of q that is in it
StaleAfterLive(q, hc) ==
  { q[j] : j \in { k \in DOMAIN q : q[k] \notin hc /\ \E i \in 1..(k - 1) : q[i] \in hc } }

\* C25 as amended: one complete traversal of a class unlinks from the down
\* ring every node out of the hashcons that follows a node in the hashcons,
\* and no other node: the record of the root and the records between it and
\* the first node in the hashcons stay linked, in the hashcons or not.  A
\* following traversal of the class yields the same nodes and relinks nothing.
C25_RingCompactedAfterLive ==
  pc = "idle" =>
    \A n \in Nodes :
      LET run    == IterateClass(Graph, n)
          r      == Root(up, n)
          before == Ring(downNext, down, r)
          after  == Ring(run.S.downNext, down, r)
          again  == IterateClass(run.S, n)
      IN /\ run.ok
         /\ NoDuplicate(after)
         /\ ToSet(after) = ToSet(before) \ StaleAfterLive(before, inHashcons)
         /\ StaleAfterLive(after, inHashcons) = {}
         /\ again.ok /\ again.yield = run.yield /\ again.S = run.S

\* An iteration over a class has yielded its root and has unlinked a node of
\* the class that is out of the hashcons.
C25_Witness ==
  /\ pc = "idle" /\ ret.op = "iterate"
  /\ \E x \in Nodes \ inHashcons :
       /\ up[x] # 0 /\ Root(up, x) \in ToSet(ret.yield)
       /\ x \notin ToSet(Ring(downNext, down, Root(up, x)))

\* C26: n->root() returns the one node of the class of n that has no up
\* pointer, and root() of that node is the node itself; after the call every
\* node on the path walked from n, the root excepted, points at the root, the
\* up pointer of every other node is as before, every node has the root it
\* had, and rank, children, rings, hashcons and roots are unchanged.
C26_RootCompresses ==
  [][ ret'.op = "root" /\ pc = "idle" =>
        LET n    == ret'.arg
            r    == ret'.node
            path == ToSet(UpPath(up, n, Len(up)))
        IN /\ r \in path /\ up[r] = 0
           /\ \A m \in Nodes : Root(up, m) = Root(up, n) /\ up[m] = 0 => m = r
           /\ Root(up', r) = r /\ Compress(up', r) = up'
           /\ \A x \in path \ {r} : up'[x] = r
           /\ \A x \in Nodes \ path : up'[x] = up[x]
           /\ up'[r] = 0
           /\ \A m \in Nodes : Root(up', m) = Root(up, m)
           /\ rank' = rank /\ children' = children /\ data' = data
           /\ uses' = uses /\ useNode' = useNode /\ useIdx' = useIdx /\ useNext' = useNext
           /\ down' = down /\ downNext' = downNext
           /\ inHashcons' = inHashcons /\ roots' = roots /\ queue' = queue ]_vars

\* root() has walked over a node between n and the root and has repointed n.
C26_Witness ==
  /\ pc = "idle" /\ ret.op = "root" /\ ret.steps >= 3
  /\ up[ret.arg] = ret.node

\* C27: a parent that the "Update users" loop erased from the hashcons and
\* scheduled for a merge with the node found under its rewritten key (the
\* roots of the two are queued unless they are one node) is at the end of the
\* drain in the class of that node and out of the hashcons; a node out of the hashcons is
\* put into it again by no later step of merge or node(); and the loop steps
\* over a use record whose parent is out of the hashcons without rewriting,
\* inserting, scheduling or relinking anything.
C27_EvictionPermanent ==
  /\ [][ \A x \in Nodes : x \notin inHashcons => x \notin inHashcons' ]_vars
  /\ [][ \A p \in inHashcons \ inHashcons' :
           LET other == Get(inHashcons', data, children', data[p], children'[p])
               F     == Drain(Graph', DrainFuel(Graph'))
           IN /\ other # 0 /\ other # p
              /\ queue' = IF Root(up, p) = Root(up, other) THEN queue
                          ELSE Append(queue, << Root(up, p), Root(up, other) >>)
              /\ F.pc = "return"
              /\ Root(F.up, p) = Root(F.up, other)
              /\ p \notin F.inHashcons ]_vars
  /\ [][ pc = "walk" /\ useNode[walk.use] \notin inHashcons =>
           /\ children' = children /\ inHashcons' = inHashcons /\ queue' = queue
           /\ useNext' = useNext /\ up' = up /\ rank' = rank /\ roots' = roots
           /\ pc' = "walk" => walk'.prev = walk.prev ]_vars

\* The loop is at a use record whose parent was erased as a duplicate.
C27_Witness ==
  /\ pc = "walk" /\ useNode[walk.use] \notin inHashcons

\* The use records the "Update users" loop has stepped over since the last
\* record it kept
Skipped ==
  IF pc # "walk" \/ walk.prev = 0 \/ useNext[walk.prev] = walk.use THEN {}
  ELSE ToSet(UsesWalk(useNext, walk.use, useNext[walk.prev], <<>>, Len(useNext)))

\* C28: after every node() and merge() call, for every node N in the hashcons
\* and every slot i of N, the record (N, i) is on the uses ring of the root of
\* N.children[i]; a step takes off the ring of a root only records that the
\* "Update users" loop has stepped over because their parent was out of the
\* hashcons, and the record the uses pointer of a root designates stays the
\* same record and stays on the ring.
C28_UsesComplete ==
  /\ [](pc = "idle" =>
          \A N \in inHashcons : \A i \in 1..Len(children[N]) :
            \E u \in ToSet(UsesRing(uses, useNext, Root(up, children[N][i]))) :
              u # 0 /\ useNode[u] = N /\ useIdx[u] = i - 1)
  /\ [][ \A r \in Nodes : up[r] = 0 /\ up'[r] = 0 =>
           LET before == ToSet(UsesRing(uses, useNext, r))
               after  == ToSet(UsesRing(uses', useNext', r))
           IN /\ \A u \in before \ after :
                   u \in Skipped /\ useNode[u] \notin inHashcons
              /\ uses[r] # 0 => uses'[r] = uses[r] /\ uses[r] \in after ]_vars

\* A merge has taken a use record off the ring it was on.
C28_Witness ==
  /\ pc = "idle" /\ ret.op = "merge"
  /\ \E u \in 1..Len(useNode) :
       \A r \in Nodes : up[r] = 0 => u \notin ToSet(UsesRing(uses, useNext, r))

\* C29: after every node() and merge() call every root has a node of its
\* class in the hashcons, and an iteration over the class of any node ends
\* and yields at least one node, all of them in the hashcons, also when the
\* root of the class is out of the hashcons.
C29_LiveMember ==
  pc = "idle" =>
    \A r \in Nodes : up[r] = 0 =>
      /\ \E m \in inHashcons : Root(up, m) = r
      /\ \A n \in Class(up, r) :
           /\ IterateClass(Graph, n).ok
           /\ IterateClass(Graph, n).yield # <<>>
           /\ ToSet(IterateClass(Graph, n).yield) \subseteq inHashcons

\* A merge has left a root out of the hashcons whose class has a member that
\* is not the root.
C29_Witness ==
  /\ pc = "idle" /\ ret.op = "merge"
  /\ \E r \in Nodes \ inHashcons : up[r] = 0 /\ Class(up, r) \cap inHashcons # {}

\* C30: on every e-graph that node() and merge() calls reach, extract with
\* the default cost and with a strictly positive cost per data returns: no
\* assert(cost > item.cost) fails and no at() misses its key, also when a sum
\* is cut to Cost::inf; the root and every child of a node in the hashcons is
\* a key of costs.
C30_ExtractCompletes ==
  pc = "idle" =>
    /\ \A m \in inHashcons :
         /\ Root(up, m) \in roots
         /\ \A i \in 1..Len(children[m]) : children[m][i] \in roots
    /\ \A fn \in CostFns : \A C \in Extract(Graph, fn) :
         /\ C.ok /\ C.holds
         /\ C.keys = roots
         /\ C.queue = {}

\* An extract has returned on an e-graph where the sum for a node is cut to
\* Cost::inf while the class of its child has a cost below Cost::inf.
C30_Witness ==
  /\ pc = "idle" /\ ret.op = "extract" /\ ret.ok
  /\ \E m \in inHashcons : \E C \in Extract(Graph, "steep") :
       /\ Len(children[m]) > 0
       /\ C.costs[children[m][1]] < CostInf
       /\ DataCost("steep", data[m]) + 1 < CostInf
       /\ NodeCost(Graph, "steep", C.costs, m) = CostInf

\* Following nx from record cur comes to record start in at most fuel + 1 steps.
RECURSIVE Returns(_, _, _, _)
Returns(nx, start, cur, fuel) ==
  IF nx[cur] = start THEN TRUE
  ELSE IF fuel = 0 THEN FALSE
  ELSE Returns(nx, start, nx[cur], fuel - 1)

\* C31: in every state that node(), merge(), a class or match iteration and
\* extract reach, following next from the down record of a root comes back to
\* that record, and following next from the record its uses pointer names
\* comes back to that record, in no more steps than there are records; every
\* class iteration ends, and so does every extract.
C31_RingsClosed ==
  pc = "idle" =>
    /\ \A r \in Nodes : up[r] = 0 =>
         /\ down[r] # 0
         /\ Returns(downNext, down[r], down[r], Len(downNext) - 1)
         /\ uses[r] # 0 => Returns(useNext, uses[r], uses[r], Len(useNext) - 1)
    /\ \A n \in Nodes : IterateClass(Graph, n).ok
    /\ \A fn \in DataCostFns : \A C \in Extract(Graph, fn) : C.ok

\* A merge has taken a use record off its ring and an iteration or extract
\* has taken a node off the down ring of its class.
C31_Witness ==
  /\ pc = "idle"
  /\ \E u \in 1..Len(useNode) :
       \A r \in Nodes : up[r] = 0 /\ uses[r] # 0 =>
         u \notin ToSet(UsesRing(uses, useNext, r))
  /\ \E x \in Nodes : ~ OnRing(downNext, down, up, x)

====
